---- MODULE Spec2Model ----
(***************************************************************************)
(* A model of the arqoii streaming QOI codec: the chunk encoder and the    *)
(* byte encoder (encode.rs), the chunk decoder and the pixel decoder       *)
(* (decode.rs), the look-ahead adapter PeekN (iterator_helper.rs) and the  *)
(* value types, header and chunk serialisation of arqoii-types.            *)
(*                                                                         *)
(* Option<T> is modelled as a sequence of length 0 (None) or 1 (Some(x)).  *)
(* An iterator over a finite collection is the sequence of its remaining   *)
(* items.  u8 arithmetic is taken modulo 256; an i8 is an integer in       *)
(* -128..127.                                                              *)
(***************************************************************************)
EXTENDS Integers, Sequences, FiniteSets, TLC

(***************************************************************************)
(* Bounds of the model.                                                    *)
(***************************************************************************)
\* longest pixel sequence drawn freely from Palette
MaxLen == 3
\* longest stretch of equal pixels in the run-shaped inputs
MaxRepeat == 125
\* longest chunk section of the byte streams handed directly to the decoder
MaxBody == 3
\* demands made on an iterator after it first returned end-of-output
MaxPolls == 2
\* the longest counting source given to a PeekN
MaxSource == 9

(***************************************************************************)
(* Option and iterator helpers.                                            *)
(***************************************************************************)
None == << >>
Some(x) == << x >>
IsSome(o) == o # << >>
Unwrap(o) == o[1]

\* Iterator::next of an iterator over a finite collection
IterNext(iter) ==
    IF iter = << >>
    THEN [item |-> None, iter |-> iter]
    ELSE [item |-> Some(Head(iter)), iter |-> Tail(iter)]

Rep(x, n) == [i \in 1..n |-> x]

SeqsUpTo(S, n) == UNION { [1..k -> S] : k \in 0..n }

(***************************************************************************)
(* Bit operations on u8.                                                   *)
(***************************************************************************)
RECURSIVE BitOp(_, _, _, _)
BitOp(op, x, y, n) ==
    IF n = 0 THEN 0
    ELSE LET bx == x % 2
             by == y % 2
             bit == IF op = "and" THEN bx * by
                    ELSE IF bx + by > 0 THEN 1 ELSE 0
         IN  bit + 2 * BitOp(op, x \div 2, y \div 2, n - 1)

BitAnd(x, y) == BitOp("and", x, y, 8)
BitOr(x, y) == BitOp("or", x, y, 8)
Shl(x, n) == (x * (2 ^ n)) % 256
Shr(x, n) == x \div (2 ^ n)

\* `as u8` of an integer and `as i8` of a u8
AsU8(x) == x % 256
AsI8(x) == IF (x % 256) >= 128 THEN (x % 256) - 256 ELSE x % 256
wrapping_sub(x, y) == (x - y) % 256
wrapping_sub_i8(x, y) == AsI8(x - y)
\* an addition that stops at 0 and 255 instead of wrapping
saturating_add_signed(x, d) == IF x + d < 0 THEN 0 ELSE IF x + d > 255 THEN 255 ELSE x + d
wrapping_add_signed(x, d) == (x + d) % 256

(***************************************************************************)
(* arqoii-types: constants, Pixel, CoderState, QoiHeader.                  *)
(***************************************************************************)
QOI_MAGIC == << 113, 111, 105, 102 >>
QOI_FOOTER == << 0, 0, 0, 0, 0, 0, 0, 1 >>

Pixel(r, g, b, a) == [r |-> r, g |-> g, b |-> b, a |-> a]
ZERO == Pixel(0, 0, 0, 0)

pixel_hash(p) == (p.r * 3 + p.g * 5 + p.b * 7 + p.a * 11) % 64

CoderStateDefault ==
    [previous |-> Pixel(0, 0, 0, 255), index |-> [i \in 0..63 |-> ZERO], run |-> 0]

QoiChannels == {"Rgb", "Rgba"}
QoiColorSpace == {"SRgbWithLinearAlpha", "AllChannelsLinear"}
ChannelsAsU8(c) == IF c = "Rgb" THEN 3 ELSE 4
ColorSpaceAsU8(c) == IF c = "SRgbWithLinearAlpha" THEN 0 ELSE 1

QoiHeaderNew(width, height, channels, color_space) ==
    [width |-> width, height |-> height, channels |-> channels, color_space |-> color_space]

\* A u32 is kept as its two 16-bit halves, [hi, lo], standing for hi * 65536 + lo
\* (TLC's integers are 32-bit signed).
U32(hi, lo) == [hi |-> hi, lo |-> lo]


\* the bytes of a u32 least-significant byte first
to_le_bytes(x) == << x.lo % 256, x.lo \div 256, x.hi % 256, x.hi \div 256 >>
to_be_bytes(x) == << x.hi \div 256, x.hi % 256, x.lo \div 256, x.lo % 256 >>
from_be_bytes(b) == U32(b[1] * 256 + b[2], b[3] * 256 + b[4])


\* to_bytes with height written before width
to_bytes_swapped(h) ==
    QOI_MAGIC \o to_be_bytes(h.height) \o to_be_bytes(h.width)
        \o << ChannelsAsU8(h.channels), ColorSpaceAsU8(h.color_space) >>
to_bytes(h) ==
    QOI_MAGIC \o to_be_bytes(h.width) \o to_be_bytes(h.height)
        \o << ChannelsAsU8(h.channels), ColorSpaceAsU8(h.color_space) >>

(***************************************************************************)
(* arqoii-types: QoiChunk, its constructors and its serialisation.         *)
(* `ok` records whether the debug assertions of the constructor held.      *)
(***************************************************************************)
new_run(run) == [tag |-> "Run", run |-> run, ok |-> (0 < run /\ run <= 62)]
new_index(idx) == [tag |-> "Index", idx |-> idx, ok |-> (idx <= 63)]
new_diff(dr, dg, db) ==
    [tag |-> "Diff", dr |-> dr, dg |-> dg, db |-> db,
     ok |-> (dr \in -2..1 /\ dg \in -2..1 /\ db \in -2..1)]
new_luma(dg, dr_dg, db_dg) ==
    [tag |-> "Luma", dg |-> dg, dr_dg |-> dr_dg, db_dg |-> db_dg,
     ok |-> (dg \in -32..31 /\ dr_dg \in -8..7 /\ db_dg \in -8..7)]
new_rgb(r, g, b) == [tag |-> "Rgb", r |-> r, g |-> g, b |-> b, ok |-> TRUE]
new_rgba(r, g, b, a) == [tag |-> "Rgba", r |-> r, g |-> g, b |-> b, a |-> a, ok |-> TRUE]

\* write_to_chunk_buffer that stores a run length without the bias of 1
write_to_chunk_buffer_runraw(c) ==
    CASE c.tag = "Rgb" -> << 254, c.r, c.g, c.b >>
      [] c.tag = "Rgba" -> << 255, c.r, c.g, c.b, c.a >>
      [] c.tag = "Index" -> << BitAnd(63, c.idx) >>
      [] c.tag = "Diff" ->
            << BitOr(64, BitAnd(63,
                  BitOr(BitOr(Shl(BitAnd(3, AsU8(c.dr + 2)), 4),
                              Shl(BitAnd(3, AsU8(c.dg + 2)), 2)),
                        BitAnd(3, AsU8(c.db + 2))))) >>
      [] c.tag = "Luma" ->
            << BitOr(128, BitAnd(63, AsU8(c.dg + 32))),
               BitOr(Shl(BitAnd(15, AsU8(c.dr_dg + 8)), 4), BitAnd(15, AsU8(c.db_dg + 8))) >>
      [] c.tag = "Run" -> << BitOr(192, AsU8(c.run)) >>
\* the bytes QoiChunk::write_to_chunk_buffer hands to ChunkBuf::set
write_to_chunk_buffer(c) ==
    CASE c.tag = "Rgb" -> << 254, c.r, c.g, c.b >>
      [] c.tag = "Rgba" -> << 255, c.r, c.g, c.b, c.a >>
      [] c.tag = "Index" -> << BitAnd(63, c.idx) >>
      [] c.tag = "Diff" ->
            << BitOr(64, BitAnd(63,
                  BitOr(BitOr(Shl(BitAnd(3, AsU8(c.dr + 2)), 4),
                              Shl(BitAnd(3, AsU8(c.dg + 2)), 2)),
                        BitAnd(3, AsU8(c.db + 2))))) >>
      [] c.tag = "Luma" ->
            << BitOr(128, BitAnd(63, AsU8(c.dg + 32))),
               BitOr(Shl(BitAnd(15, AsU8(c.dr_dg + 8)), 4), BitAnd(15, AsU8(c.db_dg + 8))) >>
      [] c.tag = "Run" -> << BitOr(192, AsU8(c.run - 1)) >>

\* ChunkBuf: data, len and read offset
ChunkBufNew == [data |-> << 0, 0, 0, 0, 0 >>, len |-> 0, offset |-> 0]
ChunkBufSet(buf, data) ==
    [data |-> [i \in 1..5 |-> IF i <= Len(data) THEN data[i] ELSE buf.data[i]],
     len |-> Len(data), offset |-> 0]
\* ChunkBufNext that yields the bytes from the last to the first
ChunkBufNext_backwards(buf) ==
    IF buf.offset < buf.len
    THEN [self |-> [buf EXCEPT !.offset = buf.offset + 1],
          ret |-> Some(buf.data[buf.len - buf.offset])]
    ELSE [self |-> buf, ret |-> None]
ChunkBufNext(buf) ==
    IF buf.offset < buf.len
    THEN [self |-> [buf EXCEPT !.offset = buf.offset + 1], ret |-> Some(buf.data[buf.offset + 1])]
    ELSE [self |-> buf, ret |-> None]
\* IntoIterator for QoiChunk
ChunkIntoIter(c) == ChunkBufSet(ChunkBufNew, write_to_chunk_buffer(c))

(***************************************************************************)
(* encode.rs: QoiChunkEncoder.  self = [state, pixel, peek]; `pixel` is    *)
(* the upstream pixel iterator, `peek` the stashed pixel.  A function body *)
(* is split where it binds an intermediate result: the operator named      *)
(* after the function takes the first step and hands the result on.        *)
(***************************************************************************)
ChunkEncoderNew(pixel) == [state |-> CoderStateDefault, pixel |-> pixel, peek |-> None]


\* DrawStep that never coalesces: every pixel ends the loop
DrawStep_norun(e, pixel) == [kind |-> "break", ret |-> None, pixel |-> pixel, self |-> e]
\* DrawStep that leaves the index alone at the start of a run
DrawStep_noindex(e, pixel) ==
    IF pixel = e.state.previous
    THEN IF e.state.run + 1 = 62
         THEN [kind |-> "return", ret |-> Some(new_run(62)), pixel |-> pixel,
               self |-> [e EXCEPT !.state.run = 0]]
         ELSE [kind |-> "continue", ret |-> None, pixel |-> pixel,
               self |-> [e EXCEPT !.state.run = e.state.run + 1]]
    ELSE [kind |-> "break", ret |-> None, pixel |-> pixel, self |-> e]
\* DrawStep that closes a run at 31 pixels
DrawStep_cap31(e, pixel) ==
    IF pixel = e.state.previous
    THEN IF e.state.run + 1 = 31
         THEN [kind |-> "return", ret |-> Some(new_run(31)), pixel |-> pixel,
               self |-> [e EXCEPT !.state.run = 0]]
         ELSE IF e.state.run + 1 = 1
         THEN [kind |-> "continue", ret |-> None, pixel |-> pixel,
               self |-> [e EXCEPT !.state.run = e.state.run + 1,
                                  !.state.index[pixel_hash(pixel)] = pixel]]
         ELSE [kind |-> "continue", ret |-> None, pixel |-> pixel,
               self |-> [e EXCEPT !.state.run = e.state.run + 1]]
    ELSE [kind |-> "break", ret |-> None, pixel |-> pixel, self |-> e]
\* DrawStep that stores the first pixel of a run in slot 0
DrawStep_slot0(e, pixel) ==
    IF pixel = e.state.previous
    THEN IF e.state.run + 1 = 62
         THEN [kind |-> "return", ret |-> Some(new_run(62)), pixel |-> pixel,
               self |-> [e EXCEPT !.state.run = 0]]
         ELSE IF e.state.run + 1 = 1
         THEN [kind |-> "continue", ret |-> None, pixel |-> pixel,
               self |-> [e EXCEPT !.state.run = e.state.run + 1,
                                  !.state.index[0] = pixel]]
         ELSE [kind |-> "continue", ret |-> None, pixel |-> pixel,
               self |-> [e EXCEPT !.state.run = e.state.run + 1]]
    ELSE [kind |-> "break", ret |-> None, pixel |-> pixel, self |-> e]
\* DrawStep that returns a full run without resetting the counter
DrawStep_keeprun(e, pixel) ==
    IF pixel = e.state.previous
    THEN IF e.state.run + 1 = 62
         THEN [kind |-> "return", ret |-> Some(new_run(62)), pixel |-> pixel,
               self |-> [e EXCEPT !.state.run = 62]]
         ELSE IF e.state.run + 1 = 1
         THEN [kind |-> "continue", ret |-> None, pixel |-> pixel,
               self |-> [e EXCEPT !.state.run = e.state.run + 1,
                                  !.state.index[pixel_hash(pixel)] = pixel]]
         ELSE [kind |-> "continue", ret |-> None, pixel |-> pixel,
               self |-> [e EXCEPT !.state.run = e.state.run + 1]]
    ELSE [kind |-> "break", ret |-> None, pixel |-> pixel, self |-> e]
\* DrawStep that closes a full run one pixel late
DrawStep_cap63(e, pixel) ==
    IF pixel = e.state.previous
    THEN IF e.state.run + 1 = 63
         THEN [kind |-> "return", ret |-> Some(new_run(63)), pixel |-> pixel,
               self |-> [e EXCEPT !.state.run = 0]]
         ELSE IF e.state.run + 1 = 1
         THEN [kind |-> "continue", ret |-> None, pixel |-> pixel,
               self |-> [e EXCEPT !.state.run = e.state.run + 1,
                                  !.state.index[pixel_hash(pixel)] = pixel]]
         ELSE [kind |-> "continue", ret |-> None, pixel |-> pixel,
               self |-> [e EXCEPT !.state.run = e.state.run + 1]]
    ELSE [kind |-> "break", ret |-> None, pixel |-> pixel, self |-> e]
\* one pass of the drawing loop for the pixel just drawn: the run branch
\* (return at 62, index write at 1, continue) or break with the pixel
DrawStep(e, pixel) ==
    IF pixel = e.state.previous
    THEN IF e.state.run + 1 = 62
         THEN [kind |-> "return", ret |-> Some(new_run(62)), pixel |-> pixel,
               self |-> [e EXCEPT !.state.run = 0]]
         ELSE IF e.state.run + 1 = 1
         THEN [kind |-> "continue", ret |-> None, pixel |-> pixel,
               self |-> [e EXCEPT !.state.run = e.state.run + 1,
                                  !.state.index[pixel_hash(pixel)] = pixel]]
         ELSE [kind |-> "continue", ret |-> None, pixel |-> pixel,
               self |-> [e EXCEPT !.state.run = e.state.run + 1]]
    ELSE [kind |-> "break", ret |-> None, pixel |-> pixel, self |-> e]


\* DrawOnce that keeps the run counter when it returns the last run
DrawOnce_keeprun(e) ==
    LET src == IF IsSome(e.peek) THEN [item |-> e.peek, iter |-> e.pixel]
               ELSE IterNext(e.pixel)
        e1 == [e EXCEPT !.peek = None, !.pixel = src.iter]
    IN  IF ~IsSome(src.item)
        THEN IF e1.state.run > 0
             THEN [kind |-> "return", ret |-> Some(new_run(e1.state.run)), pixel |-> ZERO,
                   self |-> e1]
             ELSE [kind |-> "return", ret |-> None, pixel |-> ZERO, self |-> e1]
        ELSE DrawStep(e1, Unwrap(src.item))
\* one pass of the loop of lines 42-78: "continue" if the loop goes on
DrawOnce(e) ==
    LET src == IF IsSome(e.peek) THEN [item |-> e.peek, iter |-> e.pixel]
               ELSE IterNext(e.pixel)
        e1 == [e EXCEPT !.peek = None, !.pixel = src.iter]
    IN  IF ~IsSome(src.item)
        THEN IF e1.state.run > 0
             THEN [kind |-> "return", ret |-> Some(new_run(e1.state.run)), pixel |-> ZERO,
                   self |-> [e1 EXCEPT !.state.run = 0]]
             ELSE [kind |-> "return", ret |-> None, pixel |-> ZERO, self |-> e1]
        ELSE DrawStep(e1, Unwrap(src.item))

\* the loop of lines 42-78: draw from peek, then from the upstream
RECURSIVE ChunkEncoderDraw(_)
ChunkEncoderDraw(e) ==
    LET step == DrawOnce(e)
    IN  IF step.kind = "continue" THEN ChunkEncoderDraw(step.self) ELSE step

\* SelectChunk without the alpha test before DIFF and LUMA
SelectChunk_noalpha(state, pixel) ==
    LET idx == pixel_hash(pixel)
        dr == AsI8(wrapping_sub(pixel.r, state.previous.r))
        dg == AsI8(wrapping_sub(pixel.g, state.previous.g))
        db == AsI8(wrapping_sub(pixel.b, state.previous.b))
        dr_dg == wrapping_sub_i8(dr, dg)
        db_dg == wrapping_sub_i8(db, dg)
    IN  IF state.index[idx] = pixel THEN new_index(idx)
        ELSE IF dr \in -2..1 /\ dg \in -2..1 /\ db \in -2..1 THEN new_diff(dr, dg, db)
        ELSE IF dg \in -32..31 /\ dr_dg \in -8..7 /\ db_dg \in -8..7
             THEN new_luma(dg, dr_dg, db_dg)
        ELSE IF pixel.a = state.previous.a THEN new_rgb(pixel.r, pixel.g, pixel.b)
        ELSE new_rgba(pixel.r, pixel.g, pixel.b, pixel.a)
\* SelectChunk that looks at the alpha before it looks at the index
SelectChunk_alphafirst(state, pixel) ==
    LET idx == pixel_hash(pixel)
        dr == AsI8(wrapping_sub(pixel.r, state.previous.r))
        dg == AsI8(wrapping_sub(pixel.g, state.previous.g))
        db == AsI8(wrapping_sub(pixel.b, state.previous.b))
        dr_dg == wrapping_sub_i8(dr, dg)
        db_dg == wrapping_sub_i8(db, dg)
    IN  IF pixel.a # state.previous.a THEN new_rgba(pixel.r, pixel.g, pixel.b, pixel.a)
        ELSE IF state.index[idx] = pixel THEN new_index(idx)
        ELSE IF dr \in -2..1 /\ dg \in -2..1 /\ db \in -2..1 THEN new_diff(dr, dg, db)
        ELSE IF dg \in -32..31 /\ dr_dg \in -8..7 /\ db_dg \in -8..7
             THEN new_luma(dg, dr_dg, db_dg)
        ELSE new_rgb(pixel.r, pixel.g, pixel.b)
\* SelectChunk that takes DIFF for deltas up to 2
SelectChunk_diffwide(state, pixel) ==
    LET idx == pixel_hash(pixel)
        dr == AsI8(wrapping_sub(pixel.r, state.previous.r))
        dg == AsI8(wrapping_sub(pixel.g, state.previous.g))
        db == AsI8(wrapping_sub(pixel.b, state.previous.b))
        dr_dg == wrapping_sub_i8(dr, dg)
        db_dg == wrapping_sub_i8(db, dg)
    IN  IF state.index[idx] = pixel THEN new_index(idx)
        ELSE IF pixel.a = state.previous.a
        THEN IF dr \in -2..2 /\ dg \in -2..2 /\ db \in -2..2 THEN new_diff(dr, dg, db)
             ELSE IF dg \in -32..31 /\ dr_dg \in -8..7 /\ db_dg \in -8..7
                  THEN new_luma(dg, dr_dg, db_dg)
                  ELSE new_rgb(pixel.r, pixel.g, pixel.b)
        ELSE new_rgba(pixel.r, pixel.g, pixel.b, pixel.a)
\* SelectChunk that tries LUMA before DIFF
SelectChunk_lumafirst(state, pixel) ==
    LET idx == pixel_hash(pixel)
        dr == AsI8(wrapping_sub(pixel.r, state.previous.r))
        dg == AsI8(wrapping_sub(pixel.g, state.previous.g))
        db == AsI8(wrapping_sub(pixel.b, state.previous.b))
        dr_dg == wrapping_sub_i8(dr, dg)
        db_dg == wrapping_sub_i8(db, dg)
    IN  IF state.index[idx] = pixel THEN new_index(idx)
        ELSE IF pixel.a = state.previous.a
        THEN IF dg \in -32..31 /\ dr_dg \in -8..7 /\ db_dg \in -8..7
             THEN new_luma(dg, dr_dg, db_dg)
             ELSE IF dr \in -2..1 /\ dg \in -2..1 /\ db \in -2..1 THEN new_diff(dr, dg, db)
                  ELSE new_rgb(pixel.r, pixel.g, pixel.b)
        ELSE new_rgba(pixel.r, pixel.g, pixel.b, pixel.a)
\* SelectChunk that tries DIFF before it looks at the index
SelectChunk_difffirst(state, pixel) ==
    LET idx == pixel_hash(pixel)
        dr == AsI8(wrapping_sub(pixel.r, state.previous.r))
        dg == AsI8(wrapping_sub(pixel.g, state.previous.g))
        db == AsI8(wrapping_sub(pixel.b, state.previous.b))
        dr_dg == wrapping_sub_i8(dr, dg)
        db_dg == wrapping_sub_i8(db, dg)
    IN  IF pixel.a = state.previous.a /\ dr \in -2..1 /\ dg \in -2..1 /\ db \in -2..1
        THEN new_diff(dr, dg, db)
        ELSE IF state.index[idx] = pixel THEN new_index(idx)
        ELSE IF pixel.a = state.previous.a
        THEN IF dg \in -32..31 /\ dr_dg \in -8..7 /\ db_dg \in -8..7
             THEN new_luma(dg, dr_dg, db_dg)
             ELSE new_rgb(pixel.r, pixel.g, pixel.b)
        ELSE new_rgba(pixel.r, pixel.g, pixel.b, pixel.a)
\* the choice of lines 89-127 for a pixel that is not part of a run
SelectChunk(state, pixel) ==
    LET idx == pixel_hash(pixel)
        dr == AsI8(wrapping_sub(pixel.r, state.previous.r))
        dg == AsI8(wrapping_sub(pixel.g, state.previous.g))
        db == AsI8(wrapping_sub(pixel.b, state.previous.b))
        dr_dg == wrapping_sub_i8(dr, dg)
        db_dg == wrapping_sub_i8(db, dg)
    IN  IF state.index[idx] = pixel THEN new_index(idx)
        ELSE IF pixel.a = state.previous.a
        THEN IF dr \in -2..1 /\ dg \in -2..1 /\ db \in -2..1 THEN new_diff(dr, dg, db)
             ELSE IF dg \in -32..31 /\ dr_dg \in -8..7 /\ db_dg \in -8..7
                  THEN new_luma(dg, dr_dg, db_dg)
                  ELSE new_rgb(pixel.r, pixel.g, pixel.b)
        ELSE new_rgba(pixel.r, pixel.g, pixel.b, pixel.a)

\* EncodeDrawn that drops the pixel that ended a run
EncodeDrawn_dropped(d) ==
    IF d.kind = "return" THEN [self |-> d.self, ret |-> d.ret]
    ELSE IF d.self.state.run > 0
    THEN [self |-> [d.self EXCEPT !.state.run = 0],
          ret |-> Some(new_run(d.self.state.run))]
    ELSE [self |-> [d.self EXCEPT !.state.index[pixel_hash(d.pixel)] = d.pixel,
                                  !.state.previous = d.pixel],
          ret |-> Some(SelectChunk(d.self.state, d.pixel))]
\* EncodeDrawn that does not store the encoded pixel in the index
EncodeDrawn_noindex(d) ==
    IF d.kind = "return" THEN [self |-> d.self, ret |-> d.ret]
    ELSE IF d.self.state.run > 0
    THEN [self |-> [d.self EXCEPT !.peek = Some(d.pixel), !.state.run = 0],
          ret |-> Some(new_run(d.self.state.run))]
    ELSE [self |-> [d.self EXCEPT !.state.previous = d.pixel],
          ret |-> Some(SelectChunk(d.self.state, d.pixel))]
\* EncodeDrawn that counts an encoded pixel as the first of a run
EncodeDrawn_counted(d) ==
    IF d.kind = "return" THEN [self |-> d.self, ret |-> d.ret]
    ELSE IF d.self.state.run > 0
    THEN [self |-> [d.self EXCEPT !.peek = Some(d.pixel), !.state.run = 0],
          ret |-> Some(new_run(d.self.state.run))]
    ELSE [self |-> [d.self EXCEPT !.state.index[pixel_hash(d.pixel)] = d.pixel,
                                  !.state.previous = d.pixel, !.state.run = 1],
          ret |-> Some(SelectChunk(d.self.state, d.pixel))]
\* lines 80-131: close a pending run and stash the pixel, or encode the pixel
EncodeDrawn(d) ==
    IF d.kind = "return" THEN [self |-> d.self, ret |-> d.ret]
    ELSE IF d.self.state.run > 0
    THEN [self |-> [d.self EXCEPT !.peek = Some(d.pixel), !.state.run = 0],
          ret |-> Some(new_run(d.self.state.run))]
    ELSE [self |-> [d.self EXCEPT !.state.index[pixel_hash(d.pixel)] = d.pixel,
                                  !.state.previous = d.pixel],
          ret |-> Some(SelectChunk(d.self.state, d.pixel))]

\* QoiChunkEncoder::next
ChunkEncoderNext(e) == EncodeDrawn(ChunkEncoderDraw(e))

(***************************************************************************)
(* encode.rs: QoiEncoder = header bytes, Flatten<QoiChunkEncoder>, footer  *)
(* bytes.  Flatten keeps the chunk encoder fused (`iter` becomes None once *)
(* it returned None) and the ChunkBuf of the current chunk in `frontiter`. *)
(* `drawn` lists what the calls of QoiChunkEncoder::next returned.         *)
(***************************************************************************)
FlattenNew(inner) == [iter |-> Some(inner), frontiter |-> None]

RECURSIVE FlattenNext(_)
FlattenPrepend(c, rest) == [rest EXCEPT !.drawn = << c.ret >> \o rest.drawn]
FlattenInner(c) ==
    IF ~IsSome(c.ret)
    THEN [self |-> [iter |-> None, frontiter |-> None], ret |-> None, drawn |-> << c.ret >>]
    ELSE FlattenPrepend(c, FlattenNext([iter |-> Some(c.self),
                                        frontiter |-> Some(ChunkIntoIter(Unwrap(c.ret)))]))
FlattenFront(f, front) ==
    IF IsSome(front.ret)
    THEN [self |-> [f EXCEPT !.frontiter = Some(front.self)], ret |-> front.ret,
          drawn |-> << >>]
    ELSE IF ~IsSome(f.iter)
    THEN [self |-> [f EXCEPT !.frontiter = None], ret |-> None, drawn |-> << >>]
    ELSE FlattenInner(ChunkEncoderNext(Unwrap(f.iter)))
FlattenNext(f) ==
    IF IsSome(f.frontiter) THEN FlattenFront(f, ChunkBufNext(Unwrap(f.frontiter)))
    ELSE FlattenFront(f, [self |-> ChunkBufNew, ret |-> None])

\* QoiEncoderNew that takes no more than width * height pixels
QoiEncoderNew_capped(header, pixels) ==
    LET len == Len(pixels)
        zero(x) == x.hi = 0 /\ x.lo = 0
        small(x) == x.hi = 0 /\ x.lo < len
        size == IF zero(header.width) \/ zero(header.height) THEN 0
                ELSE IF small(header.width) /\ small(header.height)
                THEN header.width.lo * header.height.lo
                ELSE len
    IN  [header_bytes |-> to_bytes(header),
         chunks |-> FlattenNew(ChunkEncoderNew(SubSeq(pixels, 1, IF size < len THEN size ELSE len))),
         footer_bytes |-> QOI_FOOTER]
QoiEncoderNew(header, pixels) ==
    [header_bytes |-> to_bytes(header),
     chunks |-> FlattenNew(ChunkEncoderNew(pixels)),
     footer_bytes |-> QOI_FOOTER]

\* QoiEncoder::next: header_bytes.next() or chunks.next() or footer_bytes.next()
EncoderFooter(enc, c, t) ==
    [self |-> [enc EXCEPT !.chunks = c.self, !.footer_bytes = t.iter],
     ret |-> t.item, drawn |-> c.drawn]
EncoderChunks(enc, c) ==
    IF IsSome(c.ret)
    THEN [self |-> [enc EXCEPT !.chunks = c.self], ret |-> c.ret, drawn |-> c.drawn]
    ELSE EncoderFooter(enc, c, IterNext(enc.footer_bytes))

\* EncoderHeader that yields the footer bytes before the chunk bytes
EncoderHeader_footerfirst(enc, h) ==
    IF IsSome(h.item)
    THEN [self |-> [enc EXCEPT !.header_bytes = h.iter], ret |-> h.item, drawn |-> << >>]
    ELSE IF enc.footer_bytes # << >>
    THEN [self |-> [enc EXCEPT !.footer_bytes = Tail(enc.footer_bytes)],
          ret |-> Some(Head(enc.footer_bytes)), drawn |-> << >>]
    ELSE EncoderChunks(enc, FlattenNext(enc.chunks))
EncoderHeader(enc, h) ==
    IF IsSome(h.item)
    THEN [self |-> [enc EXCEPT !.header_bytes = h.iter], ret |-> h.item, drawn |-> << >>]
    ELSE EncoderChunks(enc, FlattenNext(enc.chunks))
QoiEncoderNext(enc) == EncoderHeader(enc, IterNext(enc.header_bytes))

(***************************************************************************)
(* iterator_helper.rs: PeekN<N, I, Item> with N = 7 as the decoder uses it.*)
(* self = [iter, peek]; peek is the array of N Option<Item>.               *)
(***************************************************************************)
PeekWidth == 7

PeekNNew(iter) == [iter |-> iter, peek |-> [i \in 1..PeekWidth |-> None]]

\* index (from 1) of the first occupied slot of the array, 0 when there is none
FirstSome(peek) ==
    IF \E i \in 1..Len(peek) : IsSome(peek[i])
    THEN CHOOSE i \in 1..Len(peek) :
            IsSome(peek[i]) /\ \A j \in 1..(i - 1) : ~IsSome(peek[j])
    ELSE 0

rotate_left(arr, k) == [i \in 1..Len(arr) |-> arr[((i - 1 + k) % Len(arr)) + 1]]

\* the flat_map of peek(): every empty slot draws from the upstream, in order
RECURSIVE PeekFill(_, _)
PeekFill(p, i) ==
    IF i > Len(p.peek) THEN p
    ELSE IF IsSome(p.peek[i]) THEN PeekFill(p, i + 1)
    ELSE LET n == IterNext(p.iter)
         IN  PeekFill([iter |-> n.iter, peek |-> [p.peek EXCEPT ![i] = n.item]], i + 1)

RECURSIVE Flat(_)
Flat(opts) == IF opts = << >> THEN << >> ELSE Head(opts) \o Flat(Tail(opts))

\* PeekNPeek that fills the array without rotating it first
PeekNPeek_norotate(p) ==
    LET filled == PeekFill(p, 1)
        items == Flat(filled.peek)
    IN  [self |-> filled,
         ret |-> IF Len(items) = Len(p.peek) THEN Some(items) ELSE None]
\* PeekN::peek
PeekNPeek(p) ==
    LET first == FirstSome(p.peek)
        rotate == IF first = 0 THEN 0 ELSE first - 1
        filled == PeekFill([p EXCEPT !.peek = rotate_left(p.peek, rotate)], 1)
        items == Flat(filled.peek)
    IN  [self |-> filled,
         ret |-> IF Len(items) = Len(p.peek) THEN Some(items) ELSE None]

\* PeekNNext that draws from the upstream before it takes a buffered item
PeekNNext_upstream(p) ==
    LET first == FirstSome(p.peek)
        n == IterNext(p.iter)
    IN  IF IsSome(n.item)
        THEN [self |-> [p EXCEPT !.iter = n.iter], ret |-> n.item]
        ELSE IF first # 0
        THEN [self |-> [p EXCEPT !.peek[first] = None], ret |-> p.peek[first]]
        ELSE [self |-> p, ret |-> None]
\* PeekN::next
PeekNNext(p) ==
    LET first == FirstSome(p.peek)
        n == IterNext(p.iter)
    IN  IF first # 0
        THEN [self |-> [p EXCEPT !.peek[first] = None], ret |-> p.peek[first]]
        ELSE [self |-> [p EXCEPT !.iter = n.iter], ret |-> n.item]

\* n successive `self.bytes.next()?`: stops at the first None
RECURSIVE PeekNTake(_, _)
PeekNTakeMore(x, rest) == [rest EXCEPT !.items = x.ret \o rest.items]
PeekNTakeOne(x, n) ==
    IF ~IsSome(x.ret) THEN [self |-> x.self, items |-> << >>, ok |-> FALSE]
    ELSE PeekNTakeMore(x, PeekNTake(x.self, n - 1))
PeekNTake(p, n) ==
    IF n = 0 THEN [self |-> p, items |-> << >>, ok |-> TRUE]
    ELSE PeekNTakeOne(PeekNNext(p), n)

(***************************************************************************)
(* decode.rs: QoiChunkDecoder.  self = [bytes], a PeekN over the bytes.    *)
(***************************************************************************)
ChunkDecoderNew(iter) == [bytes |-> PeekNNew(iter)]

\* IsFooter that does not look at the last byte
IsFooter_zeros(init, peeked) ==
    init = 0 /\ IsSome(peeked) /\ \A i \in 1..6 : Unwrap(peeked)[i] = 0
\* IsFooter that takes a last byte of 0 as well as 1
IsFooter_loose(init, peeked) ==
    /\ init = 0 /\ IsSome(peeked)
    /\ \A i \in 1..6 : Unwrap(peeked)[i] = 0
    /\ Unwrap(peeked)[7] <= 1
\* the footer test of lines 48-56 after a chunk-start byte `init`
IsFooter(init, peeked) ==
    init = 0 /\ IsSome(peeked) /\ SubSeq(QOI_FOOTER, 2, 8) = Unwrap(peeked)

\* DecodeDiff without the bias of 2
DecodeDiff_unbiased(init) ==
    new_diff(AsI8(BitAnd(Shr(init, 4), 3)),
             AsI8(BitAnd(Shr(init, 2), 3)),
             AsI8(BitAnd(init, 3)))
\* the payloads of lines 59-79: diff, luma and run
DecodeDiff(init) ==
    new_diff(AsI8(BitAnd(Shr(init, 4), 3)) - 2,
             AsI8(BitAnd(Shr(init, 2), 3)) - 2,
             AsI8(BitAnd(init, 3)) - 2)
\* DecodeLuma that takes dr_dg from the low and db_dg from the high half
DecodeLuma_swapped(init, next) ==
    new_luma(AsI8(BitAnd(init, 63)) - 32,
             AsI8(BitAnd(next, 15)) - 8,
             AsI8(BitAnd(Shr(next, 4), 15)) - 8)
DecodeLuma(init, next) ==
    new_luma(AsI8(BitAnd(init, 63)) - 32,
             AsI8(BitAnd(Shr(next, 4), 15)) - 8,
             AsI8(BitAnd(next, 15)) - 8)

\* DecodeRun without the bias of 1
DecodeRun_raw(init) == new_run(BitAnd(init, 63))
DecodeRun(init) == new_run(BitAnd(init, 63) + 1)

\* QoiChunkDecoder::next
DecodeRgba(t) ==
    [self |-> [bytes |-> t.self],
     ret |-> IF t.ok THEN Some(new_rgba(t.items[1], t.items[2], t.items[3], t.items[4]))
             ELSE None]
DecodeRgb(t) ==
    [self |-> [bytes |-> t.self],
     ret |-> IF t.ok THEN Some(new_rgb(t.items[1], t.items[2], t.items[3])) ELSE None]
\* DecodeIndex that drops the look-ahead when it has recognised the footer
DecodeIndex_drain(init, pk) ==
    IF IsFooter(init, pk.ret)
    THEN [self |-> [bytes |-> PeekNNew(pk.self.iter)], ret |-> None]
    ELSE [self |-> [bytes |-> pk.self], ret |-> Some(new_index(BitAnd(init, 63)))]
DecodeIndex(init, pk) ==
    [self |-> [bytes |-> pk.self],
     ret |-> IF IsFooter(init, pk.ret) THEN None ELSE Some(new_index(BitAnd(init, 63)))]
\* DecodeLumaBytes that takes a missing second byte for 0
DecodeLumaBytes_pad(init, t) ==
    [self |-> [bytes |-> t.self],
     ret |-> Some(DecodeLuma(init, IF t.ok THEN t.items[1] ELSE 0))]
DecodeLumaBytes(init, t) ==
    [self |-> [bytes |-> t.self],
     ret |-> IF t.ok THEN Some(DecodeLuma(init, t.items[1])) ELSE None]
\* DecodeInit that checks for the footer after every INDEX chunk-start byte
DecodeInit_peekall(bytes, init) ==
    IF init = 255 THEN DecodeRgba(PeekNTake(bytes, 4))
    ELSE IF init = 254 THEN DecodeRgb(PeekNTake(bytes, 3))
    ELSE IF Shr(init, 6) = 0 THEN DecodeIndex(init, PeekNPeek(bytes))
    ELSE IF Shr(init, 6) = 1 THEN [self |-> [bytes |-> bytes], ret |-> Some(DecodeDiff(init))]
    ELSE IF Shr(init, 6) = 2 THEN DecodeLumaBytes(init, PeekNTake(bytes, 1))
    ELSE [self |-> [bytes |-> bytes], ret |-> Some(DecodeRun(init))]
DecodeInit(bytes, init) ==
    IF init = 255 THEN DecodeRgba(PeekNTake(bytes, 4))
    ELSE IF init = 254 THEN DecodeRgb(PeekNTake(bytes, 3))
    ELSE IF Shr(init, 6) = 0
    THEN IF init = 0 THEN DecodeIndex(init, PeekNPeek(bytes))
         ELSE DecodeIndex(init, [self |-> bytes, ret |-> None])
    ELSE IF Shr(init, 6) = 1 THEN [self |-> [bytes |-> bytes], ret |-> Some(DecodeDiff(init))]
    ELSE IF Shr(init, 6) = 2 THEN DecodeLumaBytes(init, PeekNTake(bytes, 1))
    ELSE [self |-> [bytes |-> bytes], ret |-> Some(DecodeRun(init))]
DecodeFirst(i) ==
    IF ~IsSome(i.ret) THEN [self |-> [bytes |-> i.self], ret |-> None]
    ELSE DecodeInit(i.self, Unwrap(i.ret))
ChunkDecoderNext(d) == DecodeFirst(PeekNNext(d.bytes))

(***************************************************************************)
(* decode.rs: QoiDecoder.  self = [state, chunks].                         *)
(***************************************************************************)
\* n successive `iter.next()?` on the raw byte source
RECURSIVE IterTake(_, _)
IterTakeMore(x, rest) == [rest EXCEPT !.items = x.item \o rest.items]
IterTakeOne(x, n) ==
    IF ~IsSome(x.item) THEN [iter |-> x.iter, items |-> << >>, ok |-> FALSE]
    ELSE IterTakeMore(x, IterTake(x.iter, n - 1))
IterTake(iter, n) ==
    IF n = 0 THEN [iter |-> iter, items |-> << >>, ok |-> TRUE]
    ELSE IterTakeOne(IterNext(iter), n)

\* QoiDecoder::new: ret is None or Some of the header and the decoder; `iter`
\* is the byte source as the call leaves it
NewFailed(iter) == [ret |-> None, iter |-> iter]
NewColorSpace(width, height, channels, cs) ==
    IF ~cs.ok THEN NewFailed(cs.iter)
    ELSE IF cs.items[1] \notin {0, 1} THEN NewFailed(cs.iter)
    ELSE [ret |-> Some([header |->
                          QoiHeaderNew(width, height, channels,
                                       IF cs.items[1] = 0 THEN "SRgbWithLinearAlpha"
                                       ELSE "AllChannelsLinear"),
                        self |-> [state |-> CoderStateDefault,
                                  chunks |-> ChunkDecoderNew(cs.iter)]]),
          iter |-> cs.iter]

\* NewChannels that takes every channels byte other than 3 for Rgba
NewChannels_any(width, height, ch) ==
    IF ~ch.ok THEN NewFailed(ch.iter)
    ELSE IF ch.items[1] = 3 THEN NewColorSpace(width, height, "Rgb", IterTake(ch.iter, 1))
    ELSE NewColorSpace(width, height, "Rgba", IterTake(ch.iter, 1))
\* NewChannels that draws the colour-space byte before it refuses the channels byte
NewChannels_late(width, height, ch) ==
    IF ~ch.ok THEN NewFailed(ch.iter)
    ELSE IF ch.items[1] = 3 THEN NewColorSpace(width, height, "Rgb", IterTake(ch.iter, 1))
    ELSE IF ch.items[1] = 4 THEN NewColorSpace(width, height, "Rgba", IterTake(ch.iter, 1))
    ELSE NewFailed(IterTake(ch.iter, 1).iter)
NewChannels(width, height, ch) ==
    IF ~ch.ok THEN NewFailed(ch.iter)
    ELSE IF ch.items[1] = 3 THEN NewColorSpace(width, height, "Rgb", IterTake(ch.iter, 1))
    ELSE IF ch.items[1] = 4 THEN NewColorSpace(width, height, "Rgba", IterTake(ch.iter, 1))
    ELSE NewFailed(ch.iter)
NewHeight(width, h) ==
    IF ~h.ok THEN NewFailed(h.iter)
    ELSE NewChannels(width, from_be_bytes(h.items), IterTake(h.iter, 1))
NewWidth(w) ==
    IF ~w.ok THEN NewFailed(w.iter)
    ELSE NewHeight(from_be_bytes(w.items), IterTake(w.iter, 4))
NewMagic(magic) ==
    IF ~magic.ok THEN NewFailed(magic.iter)
    ELSE IF magic.items # QOI_MAGIC THEN NewFailed(magic.iter)
    ELSE NewWidth(IterTake(magic.iter, 4))
QoiDecoderNew(iter) == NewMagic(IterTake(iter, 4))


\* ExpandChunk that arms the counter with the whole run length
ExpandChunk_fullrun(state, chunk) ==
    LET p == state.previous
        set(next) == [state EXCEPT !.previous = next, !.index[pixel_hash(next)] = next]
    IN  CASE chunk.tag = "Rgb" ->
                LET next == Pixel(chunk.r, chunk.g, chunk.b, p.a)
                IN  [state |-> set(next), ret |-> next]
          [] chunk.tag = "Rgba" ->
                LET next == Pixel(chunk.r, chunk.g, chunk.b, chunk.a)
                IN  [state |-> set(next), ret |-> next]
          [] chunk.tag = "Index" ->
                LET next == state.index[chunk.idx]
                IN  [state |-> [state EXCEPT !.previous = next], ret |-> next]
          [] chunk.tag = "Diff" ->
                LET next == Pixel(wrapping_add_signed(p.r, chunk.dr),
                                  wrapping_add_signed(p.g, chunk.dg),
                                  wrapping_add_signed(p.b, chunk.db), p.a)
                IN  [state |-> set(next), ret |-> next]
          [] chunk.tag = "Luma" ->
                LET next == Pixel(wrapping_add_signed(p.r, chunk.dr_dg + chunk.dg),
                                  wrapping_add_signed(p.g, chunk.dg),
                                  wrapping_add_signed(p.b, chunk.db_dg + chunk.dg), p.a)
                IN  [state |-> set(next), ret |-> next]
          [] chunk.tag = "Run" ->
                [state |-> [state EXCEPT !.run = chunk.run,
                                         !.index[pixel_hash(p)] = p],
                 ret |-> p]
\* ExpandChunk that leaves the index alone on a RUN chunk
ExpandChunk_runnoindex(state, chunk) ==
    LET p == state.previous
        set(next) == [state EXCEPT !.previous = next, !.index[pixel_hash(next)] = next]
    IN  CASE chunk.tag = "Rgb" ->
                LET next == Pixel(chunk.r, chunk.g, chunk.b, p.a)
                IN  [state |-> set(next), ret |-> next]
          [] chunk.tag = "Rgba" ->
                LET next == Pixel(chunk.r, chunk.g, chunk.b, chunk.a)
                IN  [state |-> set(next), ret |-> next]
          [] chunk.tag = "Index" ->
                LET next == state.index[chunk.idx]
                IN  [state |-> [state EXCEPT !.previous = next], ret |-> next]
          [] chunk.tag = "Diff" ->
                LET next == Pixel(wrapping_add_signed(p.r, chunk.dr),
                                  wrapping_add_signed(p.g, chunk.dg),
                                  wrapping_add_signed(p.b, chunk.db), p.a)
                IN  [state |-> set(next), ret |-> next]
          [] chunk.tag = "Luma" ->
                LET next == Pixel(wrapping_add_signed(p.r, chunk.dr_dg + chunk.dg),
                                  wrapping_add_signed(p.g, chunk.dg),
                                  wrapping_add_signed(p.b, chunk.db_dg + chunk.dg), p.a)
                IN  [state |-> set(next), ret |-> next]
          [] chunk.tag = "Run" ->
                [state |-> [state EXCEPT !.run = chunk.run - 1], ret |-> p]
\* ExpandChunk that leaves the index alone on an RGB chunk
ExpandChunk_rgbnoindex(state, chunk) ==
    LET p == state.previous
        set(next) == [state EXCEPT !.previous = next, !.index[pixel_hash(next)] = next]
    IN  CASE chunk.tag = "Rgb" ->
                LET next == Pixel(chunk.r, chunk.g, chunk.b, p.a)
                IN  [state |-> [state EXCEPT !.previous = next], ret |-> next]
          [] chunk.tag = "Rgba" ->
                LET next == Pixel(chunk.r, chunk.g, chunk.b, chunk.a)
                IN  [state |-> set(next), ret |-> next]
          [] chunk.tag = "Index" ->
                LET next == state.index[chunk.idx]
                IN  [state |-> [state EXCEPT !.previous = next], ret |-> next]
          [] chunk.tag = "Diff" ->
                LET next == Pixel(wrapping_add_signed(p.r, chunk.dr),
                                  wrapping_add_signed(p.g, chunk.dg),
                                  wrapping_add_signed(p.b, chunk.db), p.a)
                IN  [state |-> set(next), ret |-> next]
          [] chunk.tag = "Luma" ->
                LET next == Pixel(wrapping_add_signed(p.r, chunk.dr_dg + chunk.dg),
                                  wrapping_add_signed(p.g, chunk.dg),
                                  wrapping_add_signed(p.b, chunk.db_dg + chunk.dg), p.a)
                IN  [state |-> set(next), ret |-> next]
          [] chunk.tag = "Run" ->
                [state |-> [state EXCEPT !.run = chunk.run - 1,
                                         !.index[pixel_hash(p)] = p],
                 ret |-> p]
\* ExpandChunk that leaves the index alone on a DIFF chunk
ExpandChunk_diffnoindex(state, chunk) ==
    LET p == state.previous
        set(next) == [state EXCEPT !.previous = next, !.index[pixel_hash(next)] = next]
    IN  CASE chunk.tag = "Rgb" ->
                LET next == Pixel(chunk.r, chunk.g, chunk.b, p.a)
                IN  [state |-> set(next), ret |-> next]
          [] chunk.tag = "Rgba" ->
                LET next == Pixel(chunk.r, chunk.g, chunk.b, chunk.a)
                IN  [state |-> set(next), ret |-> next]
          [] chunk.tag = "Index" ->
                LET next == state.index[chunk.idx]
                IN  [state |-> [state EXCEPT !.previous = next], ret |-> next]
          [] chunk.tag = "Diff" ->
                LET next == Pixel(wrapping_add_signed(p.r, chunk.dr),
                                  wrapping_add_signed(p.g, chunk.dg),
                                  wrapping_add_signed(p.b, chunk.db), p.a)
                IN  [state |-> [state EXCEPT !.previous = next], ret |-> next]
          [] chunk.tag = "Luma" ->
                LET next == Pixel(wrapping_add_signed(p.r, chunk.dr_dg + chunk.dg),
                                  wrapping_add_signed(p.g, chunk.dg),
                                  wrapping_add_signed(p.b, chunk.db_dg + chunk.dg), p.a)
                IN  [state |-> set(next), ret |-> next]
          [] chunk.tag = "Run" ->
                [state |-> [state EXCEPT !.run = chunk.run - 1,
                                         !.index[pixel_hash(p)] = p],
                 ret |-> p]
\* the match of lines 137-190: the state after the chunk and the pixel yielded
ExpandChunk(state, chunk) ==
    LET p == state.previous
        set(next) == [state EXCEPT !.previous = next, !.index[pixel_hash(next)] = next]
    IN  CASE chunk.tag = "Rgb" ->
                LET next == Pixel(chunk.r, chunk.g, chunk.b, p.a)
                IN  [state |-> set(next), ret |-> next]
          [] chunk.tag = "Rgba" ->
                LET next == Pixel(chunk.r, chunk.g, chunk.b, chunk.a)
                IN  [state |-> set(next), ret |-> next]
          [] chunk.tag = "Index" ->
                LET next == state.index[chunk.idx]
                IN  [state |-> [state EXCEPT !.previous = next], ret |-> next]
          [] chunk.tag = "Diff" ->
                LET next == Pixel(wrapping_add_signed(p.r, chunk.dr),
                                  wrapping_add_signed(p.g, chunk.dg),
                                  wrapping_add_signed(p.b, chunk.db), p.a)
                IN  [state |-> set(next), ret |-> next]
          [] chunk.tag = "Luma" ->
                LET next == Pixel(wrapping_add_signed(p.r, chunk.dr_dg + chunk.dg),
                                  wrapping_add_signed(p.g, chunk.dg),
                                  wrapping_add_signed(p.b, chunk.db_dg + chunk.dg), p.a)
                IN  [state |-> set(next), ret |-> next]
          [] chunk.tag = "Run" ->
                [state |-> [state EXCEPT !.run = chunk.run - 1,
                                         !.index[pixel_hash(p)] = p],
                 ret |-> p]

\* QoiDecoder::next; `drawn` holds what the chunk decoder returned, if it was called
DecoderExpanded(c, x) ==
    [self |-> [state |-> x.state, chunks |-> c.self], ret |-> Some(x.ret),
     drawn |-> << c.ret >>]
DecoderChunk(d, c) ==
    IF ~IsSome(c.ret)
    THEN [self |-> [d EXCEPT !.chunks = c.self], ret |-> None, drawn |-> << c.ret >>]
    ELSE DecoderExpanded(c, ExpandChunk(d.state, Unwrap(c.ret)))
\* QoiDecoderNext that draws a chunk, and drops it, while it replays a run
QoiDecoderNext_drawing(d) ==
    IF d.state.run > 0
    THEN [self |-> [d EXCEPT !.state.run = d.state.run - 1,
                             !.chunks = ChunkDecoderNext(d.chunks).self],
          ret |-> Some(d.state.previous), drawn |-> << ChunkDecoderNext(d.chunks).ret >>]
    ELSE DecoderChunk(d, ChunkDecoderNext(d.chunks))
QoiDecoderNext(d) ==
    IF d.state.run > 0
    THEN [self |-> [d EXCEPT !.state.run = d.state.run - 1],
          ret |-> Some(d.state.previous), drawn |-> << >>]
    ELSE DecoderChunk(d, ChunkDecoderNext(d.chunks))

(***************************************************************************)
(* The inputs.                                                             *)
(***************************************************************************)
\* the starting pixel, a DIFF and a LUMA step away from it (the latter with
\* hash 0, the slot of ZERO), a grey that needs RGB, and a translucent pixel
START == Pixel(0, 0, 0, 255)
Palette ==
    { START, ZERO, Pixel(1, 1, 1, 255), Pixel(2, 1, 0, 255), Pixel(128, 128, 128, 255),
      Pixel(10, 20, 30, 128) }
RunPixels == { START, Pixel(128, 128, 128, 255) }
RunContext == { START, ZERO, Pixel(128, 128, 128, 255) }
RunLens == { 61, 62, 63, 124, MaxRepeat }

FreeImages == SeqsUpTo(Palette, MaxLen)
RunImages ==
    { pre \o Rep(p, m) \o suf :
        pre \in SeqsUpTo(RunContext, 1), p \in RunPixels, m \in RunLens,
        suf \in SeqsUpTo(RunContext, 1) }

\* 0, 1, 0x01020304 and 0xFFFFFFFF
Dimensions == { U32(0, 0), U32(0, 1), U32(258, 772), U32(65535, 65535) }
Headers ==
    { QoiHeaderNew(w, h, c, s) :
        w \in Dimensions, h \in Dimensions, c \in QoiChannels, s \in QoiColorSpace }
DefaultHeader == QoiHeaderNew(U32(0, 3), U32(0, 1), "Rgba", "SRgbWithLinearAlpha")

\* every header with a short image, and one header with every image
EncoderInputs ==
    (Headers \X SeqsUpTo({ START }, 1)) \cup ({ DefaultHeader } \X (FreeImages \cup RunImages))

\* byte streams for the decoder, each with the header it was made from: the
\* 14 header bytes alone; the header bytes followed by a chunk section over a
\* few chunk-start and payload bytes, with or without footer; cut header
\* bytes; header bytes with one byte replaced
BodyBytes == { 0, 53, 106, 159, 192, 253, 254, 255 }
DamageBytes == { 0, 2, 5, 113 }
\* the footer with one byte replaced, and the footer cut short
FooterLike ==
    { [QOI_FOOTER EXCEPT ![i] = v] : i \in 1..8, v \in { 0, 1, 2 } }
    \cup { SubSeq(QOI_FOOTER, 1, n) : n \in 1..7 }
\* single chunks with the least and the greatest payload of their kind
ExtremeChunks ==
    { << 1 >>, << 63 >>, << 64 >>, << 127 >>, << 128, 0 >>, << 128, 255 >>, << 191, 0 >>,
      << 191, 255 >>, << 193 >>, << 252 >>, << 254, 0, 255, 0 >>, << 255, 255, 0, 255, 0 >> }
\* chunk sections with one chunk of every kind: RGBA, RGB, DIFF, LUMA and
\* INDEX of the slot of the first pixel, then a run or an INDEX of a slot
\* that was never written
MixedChunks ==
    { << 255, 10, 20, 30, 128, 254, 1, 2, 3, 64, 159, 0, 20 >> \o last \o QOI_FOOTER :
        last \in { << >>, << 193 >>, << 63 >> } }
\* RGB (2,1,0), a pixel of hash 0, and then an INDEX chunk of slot 0, of a
\* slot that was never written, or a run
StaleSlotChunks ==
    { << 254, 2, 1, 0, last >> \o tail :
        last \in { 0, 1, 63, 192 }, tail \in { << >>, << 0 >>, QOI_FOOTER } }
StreamHeaders ==
    { DefaultHeader, QoiHeaderNew(U32(0, 0), U32(65535, 65535), "Rgb", "AllChannelsLinear") }
DecoderInputs ==
    { << h, to_bytes(h) >> : h \in Headers }
    \cup { << h, to_bytes(h) \o body \o tail >> :
             h \in { DefaultHeader }, body \in SeqsUpTo(BodyBytes, MaxBody),
             tail \in { << >>, QOI_FOOTER } }
    \cup { << DefaultHeader, to_bytes(DefaultHeader) \o pre \o f \o post >> :
             pre \in { << >>, << 0 >>, << 192 >> }, f \in FooterLike,
             post \in { << >>, << 0 >>, QOI_FOOTER } }
    \cup { << DefaultHeader, to_bytes(DefaultHeader) \o body >> : body \in ExtremeChunks }
    \cup { << DefaultHeader, to_bytes(DefaultHeader) \o body >> : body \in MixedChunks }
    \cup { << DefaultHeader, to_bytes(DefaultHeader) \o body >> : body \in StaleSlotChunks }
    \cup { << h, SubSeq(to_bytes(h), 1, n) >> : h \in StreamHeaders, n \in 0..13 }
    \cup { << h, [to_bytes(h) EXCEPT ![i] = v] \o tail >> :
             h \in StreamHeaders, i \in 1..14, v \in DamageBytes,
             tail \in { << >>, << 4, 0 >> } }

\* sources for a PeekN: 1, 2, ... n, which shows any loss, repetition or
\* reordering, and sources that do, or nearly do, end in the footer
Sources ==
    { [i \in 1..n |-> i] : n \in 0..MaxSource }
    \cup { pre \o f : pre \in { << >>, << 0 >>, << 9, 0 >> }, f \in { QOI_FOOTER, SubSeq(QOI_FOOTER, 1, 6) } }

\* the chunks with in-range payload: every INDEX, DIFF, LUMA and RUN chunk,
\* and RGB and RGBA chunks over a few channel values
ChunkChannels == { 0, 1, 127, 128, 254, 255 }
Chunks ==
    { new_index(idx) : idx \in 0..63 }
    \cup { new_diff(dr, dg, db) : dr \in -2..1, dg \in -2..1, db \in -2..1 }
    \cup { new_luma(dg, dr_dg, db_dg) : dg \in -32..31, dr_dg \in -8..7, db_dg \in -8..7 }
    \cup { new_run(run) : run \in 1..62 }
    \cup { new_rgb(r, g, b) : r \in ChunkChannels, g \in ChunkChannels, b \in ChunkChannels }
    \cup { new_rgba(r, g, b, a) :
             r \in ChunkChannels, g \in ChunkChannels, b \in ChunkChannels,
             a \in ChunkChannels }

\* two-pixel images whose channels step across 0 and 255 and across the
\* limits of DIFF and LUMA, the second pixel with the alpha of the first
WrapChannels == { 0, 1, 2, 9, 32, 223, 253, 254, 255 }
WrapPrevious ==
    { START, Pixel(255, 255, 255, 255), Pixel(255, 0, 1, 255), Pixel(1, 254, 32, 7) }
WrapImages ==
    { << q, Pixel(r, g, b, q.a) >> :
        q \in WrapPrevious, r \in WrapChannels, g \in WrapChannels, b \in WrapChannels }

(***************************************************************************)
(* The state.                                                              *)
(***************************************************************************)
VARIABLES
    header,     \* the header given to QoiEncoder::new
    image,      \* the pixels given to QoiEncoder::new
    encoder,    \* the QoiEncoder
    encoded,    \* what the demands on the byte source returned so far (Option<u8>)
    emitted,    \* what QoiChunkEncoder::next returned so far (Option<QoiChunk>)
    decoder,    \* [called, ret, iter]: the result of QoiDecoder::new and the decoder
    decoded,    \* what QoiDecoder::next returned so far (Option<Pixel>)
    dchunks,    \* what QoiChunkDecoder::next returned so far (Option<QoiChunk>)
    upstream,   \* the items of the source given to PeekN::new
    peekn,      \* the PeekN
    taken,      \* what PeekN::next returned so far (Option<Item>)
    lastcall,   \* the latest call on the PeekN, [op, ret], if there was one
    written,    \* the chunk the ChunkBuf was made from, if it was made from one
    chunkbuf,   \* the ChunkBuf
    bufout,     \* what ChunkBuf::next returned since the chunk was written (Option<u8>)
    alone,      \* what a QoiChunkDecoder over the bytes of `written` alone returned, if called
    pixels,     \* the pixels given to QoiChunkEncoder::new
    chunker,    \* the QoiChunkEncoder
    chunked     \* what the demands on the QoiChunkEncoder returned so far (Option<QoiChunk>)

codecVars == << header, image, encoder, encoded, emitted, decoder, decoded, dchunks >>
peekVars == << upstream, peekn, taken, lastcall >>
bufVars == << written, chunkbuf, bufout, alone >>
chunkVars == << pixels, chunker, chunked >>
vars == << header, image, encoder, encoded, emitted, decoder, decoded, dchunks,
           upstream, peekn, taken, lastcall, written, chunkbuf, bufout, alone,
           pixels, chunker, chunked >>

\* the items returned before the first None
Nones(results) == { i \in 1..Len(results) : ~IsSome(results[i]) }
FirstNone(nones, len) ==
    IF nones = { } THEN len + 1 ELSE CHOOSE i \in nones : \A j \in nones : i <= j
UpToEnd(results) ==
    [i \in 1..(FirstNone(Nones(results), Len(results)) - 1) |-> Unwrap(results[i])]
NoneCount(results) == Cardinality(Nones(results))
Ended(results) == NoneCount(results) > 0

NoDecoder == [called |-> FALSE, ret |-> None, iter |-> << >>]

\* no PeekN and no ChunkBuf of their own: those inside the codec are part of it
NoPeekN ==
    /\ upstream = << >>
    /\ peekn = PeekNNew(<< >>)
    /\ taken = << >>
    /\ lastcall = None
NoChunkBuf ==
    /\ written = None
    /\ chunkbuf = ChunkBufNew
    /\ bufout = << >>
    /\ alone = None
\* no chunk encoder of its own: the one inside the QoiEncoder is part of it
NoChunker ==
    /\ pixels = << >>
    /\ chunker = ChunkEncoderNew(pixels)
    /\ chunked = << >>

Init ==
    /\ \E in \in EncoderInputs : header = in[1] /\ image = in[2]
    /\ encoder = QoiEncoderNew(header, image)
    /\ encoded = << >>
    /\ emitted = << >>
    /\ decoder = NoDecoder
    /\ decoded = << >>
    /\ dchunks = << >>
    /\ NoPeekN /\ NoChunkBuf /\ NoChunker

\* the decoder is given a byte stream of the caller instead of an encoder's;
\* `header` is the header the stream was made from
InitDec ==
    /\ \E in \in DecoderInputs :
           /\ header = in[1]
           /\ encoded = [i \in 1..Len(in[2]) |-> Some(in[2][i])] \o << None >>
    /\ image = << >>
    /\ encoder = QoiEncoderNew(header, image)
    /\ emitted = << >>
    /\ decoder = NoDecoder
    /\ decoded = << >>
    /\ dchunks = << >>
    /\ NoPeekN /\ NoChunkBuf /\ NoChunker

\* a demand on the QoiEncoder
EncoderNext ==
    /\ ~decoder.called
    /\ NoneCount(encoded) < MaxPolls
    /\ \E n \in { QoiEncoderNext(encoder) } :
           /\ encoder' = n.self
           /\ encoded' = Append(encoded, n.ret)
           /\ emitted' = emitted \o n.drawn
    /\ UNCHANGED << header, image, decoder, decoded, dchunks, peekVars, bufVars, chunkVars >>

\* QoiDecoder::new on the bytes collected up to the end of the byte source
DecoderNew ==
    /\ ~decoder.called
    /\ Ended(encoded)
    /\ \E n \in { QoiDecoderNew(UpToEnd(encoded)) } :
           decoder' = [called |-> TRUE, ret |-> n.ret, iter |-> n.iter]
    /\ UNCHANGED << header, image, encoder, encoded, emitted, decoded, dchunks, peekVars, bufVars, chunkVars >>

\* a demand on the QoiDecoder
DecoderNext ==
    /\ decoder.called
    /\ IsSome(decoder.ret)
    /\ NoneCount(decoded) < MaxPolls
    /\ \E n \in { QoiDecoderNext(Unwrap(decoder.ret).self) } :
           /\ decoder' = [decoder EXCEPT !.ret = Some([Unwrap(decoder.ret) EXCEPT !.self = n.self])]
           /\ decoded' = Append(decoded, n.ret)
           /\ dchunks' = dchunks \o n.drawn
    /\ UNCHANGED << header, image, encoder, encoded, emitted, peekVars, bufVars, chunkVars >>

Next == EncoderNext \/ DecoderNew \/ DecoderNext
Spec == Init /\ [][Next]_vars

\* the encoder is given one of the two-pixel images
InitWrap ==
    /\ header = DefaultHeader
    /\ image \in WrapImages
    /\ encoder = QoiEncoderNew(header, image)
    /\ encoded = << >>
    /\ emitted = << >>
    /\ decoder = NoDecoder
    /\ decoded = << >>
    /\ dchunks = << >>
    /\ NoPeekN /\ NoChunkBuf /\ NoChunker
SpecWrap == InitWrap /\ [][Next]_vars

NextDec == DecoderNew \/ DecoderNext
SpecDec == InitDec /\ [][NextDec]_vars

\* no codec: neither encoder nor decoder is demanded
NoCodec ==
    /\ header = DefaultHeader
    /\ image = << >>
    /\ encoder = QoiEncoderNew(header, image)
    /\ encoded = << >>
    /\ emitted = << >>
    /\ decoder = NoDecoder
    /\ decoded = << >>
    /\ dchunks = << >>

\* a PeekN of width 7 over a source of the caller, demanded by peek and next
\* in any order
InitPeek ==
    /\ upstream \in Sources
    /\ peekn = PeekNNew(upstream)
    /\ taken = << >>
    /\ lastcall = None
    /\ NoCodec /\ NoChunkBuf /\ NoChunker
\* PeekN::peek
PeekCall ==
    /\ \E n \in { PeekNPeek(peekn) } :
           /\ peekn' = n.self
           /\ lastcall' = Some([op |-> "peek", ret |-> n.ret])
    /\ UNCHANGED << upstream, taken, codecVars, bufVars, chunkVars >>
\* PeekN::next
NextCall ==
    /\ NoneCount(taken) < MaxPolls
    /\ \E n \in { PeekNNext(peekn) } :
           /\ peekn' = n.self
           /\ taken' = Append(taken, n.ret)
           /\ lastcall' = Some([op |-> "next", ret |-> n.ret])
    /\ UNCHANGED << upstream, codecVars, bufVars, chunkVars >>
NextPeek == PeekCall \/ NextCall
SpecPeek == InitPeek /\ [][NextPeek]_vars

\* a ChunkBuf of its own: ChunkBuf::new(), or the into_iter() of a chunk
InitBuf ==
    /\ \/ written = None /\ chunkbuf = ChunkBufNew
       \/ \E c \in Chunks : written = Some(c) /\ chunkbuf = ChunkIntoIter(c)
    /\ bufout = << >>
    /\ alone = None
    /\ NoCodec /\ NoPeekN /\ NoChunker
\* ChunkBuf::next
BufNext ==
    /\ NoneCount(bufout) < MaxPolls
    /\ \E n \in { ChunkBufNext(chunkbuf) } :
           /\ chunkbuf' = n.self
           /\ bufout' = Append(bufout, n.ret)
    /\ UNCHANGED << written, alone, codecVars, peekVars, chunkVars >>
\* QoiChunkDecoder::next on a decoder over the bytes the ChunkBuf yielded
DecodeAlone ==
    /\ Ended(bufout)
    /\ alone = None
    /\ alone' = Some(ChunkDecoderNext(ChunkDecoderNew(UpToEnd(bufout))))
    /\ UNCHANGED << written, chunkbuf, bufout, codecVars, peekVars, chunkVars >>
NextBuf == BufNext \/ DecodeAlone
SpecBuf == InitBuf /\ [][NextBuf]_vars

\* a QoiChunkEncoder of its own over the pixels of the caller, demanded again
\* after it has ended; no more demands than pixels and ends
InitChunk ==
    /\ pixels \in FreeImages \cup RunImages
    /\ chunker = ChunkEncoderNew(pixels)
    /\ chunked = << >>
    /\ NoCodec /\ NoPeekN /\ NoChunkBuf
\* QoiChunkEncoder::next, one pass of its loop at a time: a pass that stays in
\* the loop changes the encoder alone, a pass that leaves it ends the call
ChunkStep ==
    /\ NoneCount(chunked) < MaxPolls
    /\ Len(chunked) < Len(pixels) + MaxPolls
    /\ \E d \in { DrawOnce(chunker) } :
           IF d.kind = "continue"
           THEN chunker' = d.self /\ chunked' = chunked
           ELSE \E n \in { EncodeDrawn(d) } :
                    chunker' = n.self /\ chunked' = Append(chunked, n.ret)
    /\ UNCHANGED << pixels, codecVars, peekVars, bufVars >>
SpecChunk == InitChunk /\ [][ChunkStep]_vars
\* the caller goes on demanding, and a call that has begun goes on
SpecChunkFair == SpecChunk /\ WF_vars(ChunkStep)

(***************************************************************************)
(* Properties.                                                             *)
(***************************************************************************)
IsPrefix(s, t) == Len(s) <= Len(t) /\ \A i \in 1..Len(s) : s[i] = t[i]
DecoderSelf == Unwrap(decoder.ret).self

\* C1: decoding the bytes of QoiEncoder::new(h, P) succeeds and returns h, and
\* the pixels yielded up to the first end-of-output are the pixels of P, in
\* order, none missing, added or altered.
RoundTrip ==
    decoder.called =>
        /\ IsSome(decoder.ret)
        /\ Unwrap(decoder.ret).header = header
        /\ IsPrefix(UpToEnd(decoded), image)
        /\ Ended(decoded) => Len(UpToEnd(decoded)) = Len(image)
RoundTripWitness ==
    /\ Ended(decoded)
    /\ Len(image) >= 3
    /\ \E i \in 1..Len(emitted) : IsSome(emitted[i]) /\ Unwrap(emitted[i]).tag = "Index"
    /\ \E i \in 1..Len(emitted) : IsSome(emitted[i]) /\ Unwrap(emitted[i]).tag = "Rgba"

\* the chunks the chunk encoder returned, and the chunk decoder, before their
\* first end-of-output
EmittedChunks == UpToEnd(emitted)
DecodedChunks == UpToEnd(dchunks)

\* C3: the chunk encoder never emits two adjacent INDEX chunks with the same idx.
NoRepeatedIndex ==
    \A i \in 1..(Len(EmittedChunks) - 1) :
        EmittedChunks[i].tag = "Index" /\ EmittedChunks[i + 1].tag = "Index"
            => EmittedChunks[i].idx # EmittedChunks[i + 1].idx
\* START, ZERO, START: the two INDEX chunks are adjacent
NoRepeatedIndexWitness ==
    /\ Len(EmittedChunks) = 3
    /\ EmittedChunks[1] = new_run(1)
    /\ EmittedChunks[2] = new_index(0)
    /\ EmittedChunks[3] = new_index(53)

\* C4: every RUN chunk the chunk encoder emits has run in 1..=62, so the debug
\* assertion of QoiChunk::new_run holds.
RunInRange ==
    \A i \in 1..Len(EmittedChunks) :
        EmittedChunks[i].tag = "Run"
            => EmittedChunks[i].run \in 1..62 /\ EmittedChunks[i].ok
\* a run longer than 62 that the input ends in the middle of
RunInRangeWitness ==
    /\ Ended(emitted)
    /\ Len(EmittedChunks) >= 2
    /\ EmittedChunks[Len(EmittedChunks) - 1] = new_run(62)
    /\ EmittedChunks[Len(EmittedChunks)] = new_run(1)

\* the serialised bytes of a chunk sequence
RECURSIVE ChunkBytes(_)
ChunkBytes(chunks) ==
    IF Len(chunks) = 0 THEN << >>
    ELSE write_to_chunk_buffer(chunks[1])
            \o ChunkBytes([i \in 1..(Len(chunks) - 1) |-> chunks[i + 1]])

\* the bytes the chunk decoder has not consumed: its look-ahead, then the source
DecoderRest == Flat(DecoderSelf.chunks.bytes.peek) \o DecoderSelf.chunks.bytes.iter

\* C5: the chunk decoder, fed the serialised chunks of the chunk encoder and
\* the footer, returns the same chunks in order and then ends at the footer.
ChunkRoundTrip ==
    decoder.called /\ IsSome(decoder.ret) =>
        /\ dchunks = << >> => DecoderRest = ChunkBytes(EmittedChunks) \o QOI_FOOTER
        /\ IsPrefix(DecodedChunks, EmittedChunks)
        /\ Ended(dchunks) => Len(DecodedChunks) = Len(EmittedChunks)
        /\ Len(dchunks) = Len(DecodedChunks) + 1 => DecoderRest = SubSeq(QOI_FOOTER, 2, 8)
\* ZERO last: an INDEX(0) chunk right before the footer, and a RUN before it
ChunkRoundTripWitness ==
    /\ Ended(dchunks)
    /\ Len(DecodedChunks) >= 3
    /\ DecodedChunks[Len(DecodedChunks)] = new_index(0)
    /\ \E i \in 1..Len(DecodedChunks) : DecodedChunks[i].tag = "Run"

\* C6: QoiDecoder::new on the bytes of h.to_bytes() succeeds and returns h.
HeaderRoundTrip ==
    decoder.called /\ IsPrefix(to_bytes(header), UpToEnd(encoded)) =>
        IsSome(decoder.ret) /\ Unwrap(decoder.ret).header = header
HeaderRoundTripWitness ==
    /\ decoder.called
    /\ Len(UpToEnd(encoded)) = 14
    /\ IsPrefix(to_bytes(header), UpToEnd(encoded))
    /\ header.width = U32(65535, 65535)
    /\ header.height = U32(0, 0)
    /\ header.channels = "Rgb"

\* C7: QoiDecoder::new fails exactly when there are fewer than 14 bytes, or the
\* first four are not "qoif", or the channels byte is not 3 or 4, or the
\* colour-space byte is not 0 or 1.
Malformed(bytes) ==
    \/ Len(bytes) < 14
    \/ << bytes[1], bytes[2], bytes[3], bytes[4] >> # << 113, 111, 105, 102 >>
    \/ bytes[13] \notin {3, 4}
    \/ bytes[14] \notin {0, 1}
NewFailsIffMalformed ==
    decoder.called => (~IsSome(decoder.ret) <=> Malformed(UpToEnd(encoded)))
\* a full-length header with channels byte 5 is refused
NewFailsIffMalformedWitness ==
    /\ decoder.called
    /\ ~IsSome(decoder.ret)
    /\ Len(UpToEnd(encoded)) >= 14
    /\ UpToEnd(encoded)[13] = 5

\* C8: to_bytes gives 14 bytes: "qoif", width and height most-significant byte
\* first, 3 or 4 for the channels, 0 or 1 for the colour space.
HeaderLayout ==
    encoded = << >> =>
        LET b == encoder.header_bytes
        IN  /\ Len(b) = 14
            /\ \A i \in 1..14 : b[i] \in 0..255
            /\ << b[1], b[2], b[3], b[4] >> = << 113, 111, 105, 102 >>
            /\ header.width.hi = b[5] * 256 + b[6]
            /\ header.width.lo = b[7] * 256 + b[8]
            /\ header.height.hi = b[9] * 256 + b[10]
            /\ header.height.lo = b[11] * 256 + b[12]
            /\ b[13] = (IF header.channels = "Rgb" THEN 3 ELSE 4)
            /\ b[14] = (IF header.color_space = "SRgbWithLinearAlpha" THEN 0 ELSE 1)
HeaderLayoutWitness ==
    /\ encoded = << >>
    /\ header.width = U32(258, 772)
    /\ header.height = U32(0, 1)
    /\ header.channels = "Rgb"
    /\ header.color_space = "AllChannelsLinear"
    /\ encoder.header_bytes = << 113, 111, 105, 102, 1, 2, 3, 4, 0, 0, 0, 1, 3, 1 >>

\* C9: QoiEncoder yields the 14 header bytes, then the bytes of each chunk in
\* emission order, then the 8 footer bytes, and end-of-output ever after; 22
\* bytes for an empty image.
EncoderOutput ==
    LET full == to_bytes(header) \o ChunkBytes(EmittedChunks)
                    \o (IF Ended(emitted) THEN QOI_FOOTER ELSE << >>)
    IN  /\ IsPrefix(UpToEnd(encoded), full)
        /\ Ended(encoded) => Ended(emitted) /\ Len(UpToEnd(encoded)) = Len(full)
        /\ \A i \in 1..Len(encoded) : \A j \in i..Len(encoded) :
              ~IsSome(encoded[i]) => ~IsSome(encoded[j])
        /\ Ended(encoded) /\ image = << >> => Len(UpToEnd(encoded)) = 22
\* a further demand after the end, for an image with a one-byte and a five-byte chunk
EncoderOutputWitness ==
    /\ NoneCount(encoded) = 2
    /\ Len(UpToEnd(encoded)) > 14 + 5 + 8
    /\ \E i \in 1..Len(EmittedChunks) : EmittedChunks[i].tag = "Rgba"
    /\ \E i \in 1..Len(EmittedChunks) : EmittedChunks[i].tag = "Run"

\* C10: up to the decoder's first end-of-output, the number of pixels yielded is
\* the sum over the decoded chunks of n for RUN(n) and 1 for any other chunk.
Weight(chunk) == IF chunk.tag = "Run" THEN chunk.run ELSE 1
RECURSIVE Weights(_)
Weights(chunks) ==
    IF Len(chunks) = 0 THEN 0
    ELSE Weight(chunks[1]) + Weights([i \in 1..(Len(chunks) - 1) |-> chunks[i + 1]])
PixelCount ==
    decoder.called /\ IsSome(decoder.ret) =>
        IF Ended(decoded) THEN Len(UpToEnd(decoded)) = Weights(DecodedChunks)
        ELSE Len(UpToEnd(decoded)) + DecoderSelf.state.run = Weights(DecodedChunks)
\* a stream of RUN(62), INDEX, RUN(1) decoded to its end
PixelCountWitness ==
    /\ Ended(decoded)
    /\ Len(DecodedChunks) = 3
    /\ DecodedChunks[1] = new_run(62)
    /\ DecodedChunks[2].tag = "Index"
    /\ DecodedChunks[3] = new_run(1)
    /\ Len(UpToEnd(decoded)) = 64

\* a step in which QoiChunkDecoder::next was called, and what it returned
ChunkDecoderCalled ==
    decoder.called /\ IsSome(decoder.ret) /\ Len(dchunks') = Len(dchunks) + 1
ChunkDecoderRet == dchunks'[Len(dchunks')]

\* C11: on a chunk-start byte 0x00 the chunk decoder ends exactly when the
\* next 7 bytes are 00 00 00 00 00 00 01; otherwise, also with fewer than 7
\* bytes left, it returns INDEX(0); either way the bytes after the 0x00 stay
\* in the stream, in order.
FooterRule ==
    [][ChunkDecoderCalled /\ Len(DecoderRest) > 0 /\ DecoderRest[1] = 0 =>
          /\ ChunkDecoderRet = None <=>
                /\ Len(DecoderRest) >= 8
                /\ SubSeq(DecoderRest, 2, 8) = << 0, 0, 0, 0, 0, 0, 1 >>
          /\ ChunkDecoderRet # None => ChunkDecoderRet = Some(new_index(0))
          /\ DecoderRest' = Tail(DecoderRest)]_vars
\* 00 then 00 00 00 00 00 00 02 then the footer: two INDEX(0) from a look-ahead
\* that was full and not the footer, six more INDEX(0), INDEX(2), then the end
FooterRuleWitness ==
    /\ Len(dchunks) = 10
    /\ \A i \in 1..8 : dchunks[i] = Some(new_index(0))
    /\ dchunks[9] = Some(new_index(2))
    /\ dchunks[10] = None
    /\ DecoderRest = SubSeq(QOI_FOOTER, 2, 8)

\* the bytes a chunk needs after its first byte
PayloadLen(init) ==
    IF init = 255 THEN 4 ELSE IF init = 254 THEN 3 ELSE IF init \in 128..191 THEN 1 ELSE 0

\* C12: when the bytes run out inside an RGB, RGBA or LUMA chunk, the chunk
\* decoder returns None and no chunk, QoiDecoder returns None, and nothing is
\* left, so that every later demand finds the bytes exhausted and returns None.
TruncatedChunk ==
    [][/\ ChunkDecoderCalled
       /\ \/ DecoderRest = << >>
          \/ Len(DecoderRest) - 1 < PayloadLen(DecoderRest[1])
       => /\ ChunkDecoderRet = None
          /\ decoded'[Len(decoded')] = None
          /\ DecoderRest' = << >>
          /\ DecoderSelf'.state = DecoderSelf.state]_vars
\* INDEX(0), then an RGBA chunk with one of its four bytes, then a further demand
TruncatedChunkWitness ==
    /\ UpToEnd(encoded) = to_bytes(header) \o << 0, 255, 0 >>
    /\ dchunks = << Some(new_index(0)), None, None >>
    /\ decoded = << Some(ZERO), None, None >>

\* the bytes after the 14 of the header
Body == SubSeq(UpToEnd(encoded), 15, Len(UpToEnd(encoded)))
\* the first None of the chunk decoder came at a footer: the chunks before it
\* account for the bytes before a footer
EndedAtFooter ==
    /\ decoder.called /\ IsSome(decoder.ret)
    /\ Ended(dchunks)
    /\ IsPrefix(ChunkBytes(DecodedChunks) \o QOI_FOOTER, Body)
\* the chunk decoder's last return was a None at a footer: the 7 bytes after
\* the 0x00 are the next unread bytes
JustRecognised ==
    /\ dchunks # << >> /\ dchunks[Len(dchunks)] = None
    /\ Len(DecoderRest) >= 7
    /\ SubSeq(DecoderRest, 1, 7) = SubSeq(QOI_FOOTER, 2, 8)

\* C13 as stated: after the None at the footer every later demand on the chunk
\* decoder and on QoiDecoder returns None.
FooterFused ==
    EndedAtFooter =>
        /\ \A j \in (Len(DecodedChunks) + 1)..Len(dchunks) : dchunks[j] = None
        /\ \A j \in (Len(UpToEnd(decoded)) + 1)..Len(decoded) : decoded[j] = None

\* C13 amended: the None at the footer leaves the footer's last 7 bytes unread,
\* and the next demand returns INDEX(0), QoiDecoder the pixel of slot 0, with
\* decoding going on from the following byte; only on exhausted bytes does the
\* chunk decoder return None on every later demand.
FooterResumes ==
    [][/\ /\ ChunkDecoderCalled
             /\ Len(DecoderRest) >= 8 /\ SubSeq(DecoderRest, 1, 8) = QOI_FOOTER
          => ChunkDecoderRet = None /\ JustRecognised'
       /\ ChunkDecoderCalled /\ JustRecognised
          => /\ ChunkDecoderRet = Some(new_index(0))
             /\ decoded'[Len(decoded')] = Some(DecoderSelf.state.index[0])
             /\ DecoderRest' = Tail(DecoderRest)
       /\ ChunkDecoderCalled /\ DecoderRest = << >>
          => ChunkDecoderRet = None /\ DecoderRest' = << >>]_vars
\* a stream that ends with the footer: None, then six INDEX(0) and INDEX(1),
\* then None on the exhausted bytes
FooterResumesWitness ==
    /\ EndedAtFooter
    /\ Body = << 192 >> \o QOI_FOOTER
    /\ dchunks = << Some(new_run(1)), None >> \o [i \in 1..6 |-> Some(new_index(0))]
                    \o << Some(new_index(1)), None >>
    /\ Len(decoded) = 10

\* the image position of the first pixel the k-th emitted chunk stands for
RECURSIVE WeightsTo(_, _)
WeightsTo(chunks, k) == IF k = 0 THEN 0 ELSE Weight(chunks[k]) + WeightsTo(chunks, k - 1)
ChunkPixel(k) == WeightsTo(EmittedChunks, k - 1) + 1
\* the pixel before position i, which is the encoder's previous pixel there
PreviousOf(i) == IF i = 1 THEN START ELSE image[i - 1]
\* what the index slot of the pixel at position i holds when the encoder comes
\* to it: the latest earlier pixel with the same hash, or the initial ZERO
SlotBefore(i) ==
    LET same == { j \in 1..(i - 1) : pixel_hash(image[j]) = pixel_hash(image[i]) }
    IN  IF same = { } THEN ZERO
        ELSE image[CHOOSE j \in same : \A l \in same : l <= j]
AlphaChanges(i) == image[i].a # PreviousOf(i).a

\* C14 as stated: a pixel whose alpha differs from the previous pixel's is
\* encoded as RGBA.
AlphaForcesRgba ==
    \A k \in 1..Len(EmittedChunks) :
        AlphaChanges(ChunkPixel(k)) => EmittedChunks[k].tag = "Rgba"

\* C14 amended: a pixel whose alpha differs from the previous pixel's is
\* encoded as INDEX when its index slot holds it, and as RGBA otherwise.
AlphaForcesIndexOrRgba ==
    \A k \in 1..Len(EmittedChunks) :
        LET p == image[ChunkPixel(k)]
        IN  AlphaChanges(ChunkPixel(k)) =>
                EmittedChunks[k] =
                    IF SlotBefore(ChunkPixel(k)) = p THEN new_index(pixel_hash(p))
                    ELSE new_rgba(p.r, p.g, p.b, p.a)
\* three alpha changes: RGBA, RGBA, and INDEX for the pixel seen before
AlphaForcesIndexOrRgbaWitness ==
    /\ Ended(emitted)
    /\ image = << Pixel(10, 20, 30, 128), START, Pixel(10, 20, 30, 128) >>
    /\ Len(EmittedChunks) = 3
    /\ EmittedChunks[1].tag = "Rgba"
    /\ EmittedChunks[2].tag = "Rgba"
    /\ EmittedChunks[3].tag = "Index"

\* C15 as stated: the one-pixel image (0,0,0,255) is encoded as the header, the
\* byte 0x00 of an INDEX chunk, and the footer.
OpaqueBlackIsIndex ==
    Ended(encoded) /\ image = << START >> =>
        /\ UpToEnd(encoded) = to_bytes(header) \o << 0 >> \o QOI_FOOTER
        /\ Len(EmittedChunks) = 1 /\ EmittedChunks[1].tag = "Index"

\* C15 amended: the one-pixel image (0,0,0,255) is encoded as the header, the
\* byte 0xC0 of a RUN(1) chunk, and the footer.
OpaqueBlackIsRun ==
    Ended(encoded) /\ image = << START >> =>
        /\ UpToEnd(encoded) = to_bytes(header) \o << 192 >> \o QOI_FOOTER
        /\ EmittedChunks = << new_run(1) >>
OpaqueBlackIsRunWitness ==
    /\ Ended(encoded)
    /\ image = << START >>
    /\ Len(UpToEnd(encoded)) = 23
    /\ UpToEnd(encoded)[15] = 192
    /\ header.channels = "Rgb"

\* the bytes QoiEncoder yielded between header and footer
ChunkSection == SubSeq(UpToEnd(encoded), 15, Len(UpToEnd(encoded)) - 8)
Grey == Pixel(128, 128, 128, 255)
GreyImage == [i \in 1..62 |-> Grey]

\* C16 as stated: 62 pixels (128,128,128,255) give a chunk section of two
\* bytes, one for the first pixel and one for a RUN(62).
GreyRunIsTwoBytes ==
    Ended(encoded) /\ image = GreyImage =>
        /\ Len(ChunkSection) = 2
        /\ Cardinality({ k \in 1..Len(EmittedChunks) : EmittedChunks[k] = new_run(62) }) = 1

\* C16 amended: 62 pixels (128,128,128,255) give a chunk section of five
\* bytes: the four of an RGB chunk for the first pixel and one for a RUN(61).
GreyRunIsFiveBytes ==
    Ended(encoded) /\ image = GreyImage =>
        /\ EmittedChunks = << new_rgb(128, 128, 128), new_run(61) >>
        /\ ChunkSection = << 254, 128, 128, 128, 252 >>
GreyRunIsFiveBytesWitness ==
    /\ Ended(encoded)
    /\ image = GreyImage
    /\ Len(UpToEnd(encoded)) = 14 + 5 + 8

\* the pixel at position i repeats the one before it
Repeats(i) == image[i] = PreviousOf(i)
\* every RUN chunk stands for 1 to 62 repeating pixels and, when shorter than
\* 62, ends their stretch; every other chunk stands for a pixel that does not
\* repeat; at the end every pixel is accounted for.  For a stretch of m
\* repeating pixels that is m div 62 times RUN(62), then RUN(m mod 62) if not 0.
RunShape ==
    /\ \A k \in 1..Len(EmittedChunks) :
          LET c == EmittedChunks[k]
              first == ChunkPixel(k)
              last == ChunkPixel(k) + Weight(c) - 1
          IN  IF c.tag = "Run"
              THEN /\ c.run \in 1..62
                   /\ last <= Len(image)
                   /\ \A i \in first..last : Repeats(i)
                   /\ c.run < 62 => last = Len(image) \/ ~Repeats(last + 1)
              ELSE ~Repeats(first)
    /\ Ended(emitted) => Weights(EmittedChunks) = Len(image)
\* a step in which the chunk encoder returned RUN(62)
FullRunEmitted ==
    Len(emitted') = Len(emitted) + 1 /\ emitted'[Len(emitted')] = Some(new_run(62))
\* the coder state of the chunk encoder inside the QoiEncoder
EncoderState == Unwrap(encoder.chunks.iter).state

\* C17 as stated: a stretch of m repeating pixels is encoded as m div 62
\* RUN(62) chunks and one RUN(m mod 62) if that is not 0, and the coder state
\* after a RUN(62) is the state before the run.
RunKeepsState ==
    []RunShape /\ [][FullRunEmitted => EncoderState' = EncoderState]_vars

\* C17 amended: the same chunks; after a RUN(62) previous and run are as
\* before the run, and so is the index except that the slot of the previous
\* pixel's hash holds the previous pixel.
RunKeepsPrevious ==
    /\ []RunShape
    /\ [][FullRunEmitted =>
             EncoderState' =
                 [EncoderState EXCEPT !.index[pixel_hash(EncoderState.previous)] =
                                          EncoderState.previous]]_vars
\* 63 pixels (0,0,0,255) from the start: RUN(62), RUN(1), and slot 53 written
RunKeepsPreviousWitness ==
    /\ Ended(emitted)
    /\ Len(image) = 63
    /\ EmittedChunks = << new_run(62), new_run(1) >>
    /\ image[1] = START

\* C18: whatever width and height the header gives, the encoder's chunks stand
\* for every pixel of its input, and the decoder yields every pixel its chunks
\* stand for.
NoPixelLimit ==
    /\ Ended(emitted) => Weights(EmittedChunks) = Len(image)
    /\ decoder.called /\ IsSome(decoder.ret) /\ Ended(decoded) =>
          /\ Len(UpToEnd(decoded)) = Weights(DecodedChunks)
          /\ Unwrap(decoder.ret).header = header
\* a header of 3 x 1 pixels with an image of more than 100
NoPixelLimitWitness ==
    /\ Ended(decoded)
    /\ header.width = U32(0, 3) /\ header.height = U32(0, 1)
    /\ Len(image) > 100
    /\ Len(UpToEnd(decoded)) = Len(image)

\* the 8-bit difference x - y read as a signed byte
SignedDelta(x, y) == ((x - y + 256 + 128) % 256) - 128

\* C19: a DIFF or LUMA chunk of the encoder carries the 8-bit modular
\* differences to the previous pixel, which has the same alpha; the decoder
\* gets the pixel back from it, also across 0 and 255; the sums dr_dg + dg and
\* db_dg + dg of a LUMA chunk fit a signed byte.
DeltaRoundTrip ==
    \A k \in 1..Len(EmittedChunks) :
        LET c == EmittedChunks[k]
            p == image[ChunkPixel(k)]
            q == PreviousOf(ChunkPixel(k))
        IN  /\ c.tag = "Diff" =>
                 /\ p.a = q.a
                 /\ c.dr = SignedDelta(p.r, q.r)
                 /\ c.dg = SignedDelta(p.g, q.g)
                 /\ c.db = SignedDelta(p.b, q.b)
            /\ c.tag = "Luma" =>
                 /\ p.a = q.a
                 /\ c.dg = SignedDelta(p.g, q.g)
                 /\ c.dr_dg + c.dg \in -128..127 /\ c.db_dg + c.dg \in -128..127
                 /\ c.dr_dg + c.dg = SignedDelta(p.r, q.r)
                 /\ c.db_dg + c.dg = SignedDelta(p.b, q.b)
            /\ c.tag \in { "Diff", "Luma" } /\ Len(UpToEnd(decoded)) >= ChunkPixel(k) =>
                 /\ DecodedChunks[k] = c
                 /\ UpToEnd(decoded)[ChunkPixel(k)] = p
\* (255,0,1) to (0,255,2): +1, -1, +1 as a DIFF chunk, and back
DeltaRoundTripWitness ==
    /\ Ended(decoded)
    /\ image = << Pixel(255, 0, 1, 255), Pixel(0, 255, 2, 255) >>
    /\ EmittedChunks[2] = new_diff(1, -1, 1)
    /\ UpToEnd(decoded) = image

\* the fields of a chunk are within the ranges its constructor asserts and
\* its byte layout has room for
InRange(c) ==
    /\ c.ok
    /\ c.tag = "Index" => c.idx \in 0..63
    /\ c.tag = "Diff" => c.dr \in -2..1 /\ c.dg \in -2..1 /\ c.db \in -2..1
    /\ c.tag = "Luma" => c.dg \in -32..31 /\ c.dr_dg \in -8..7 /\ c.db_dg \in -8..7
    /\ c.tag = "Run" => c.run \in 1..62
    /\ c.tag \in { "Rgb", "Rgba" } =>
          c.r \in 0..255 /\ c.g \in 0..255 /\ c.b \in 0..255

PriorityChunk(slot, q, p) ==
    LET dr == SignedDelta(p.r, q.r)
        dg == SignedDelta(p.g, q.g)
        db == SignedDelta(p.b, q.b)
    IN  IF slot = p THEN new_index(pixel_hash(p))
        ELSE IF p.a # q.a THEN new_rgba(p.r, p.g, p.b, p.a)
        ELSE IF dr \in -2..1 /\ dg \in -2..1 /\ db \in -2..1 THEN new_diff(dr, dg, db)
        ELSE IF dg \in -32..31 /\ dr - dg \in -8..7 /\ db - dg \in -8..7
        THEN new_luma(dg, dr - dg, db - dg)
        ELSE new_rgb(p.r, p.g, p.b)

\* C21: a chunk that is not a RUN stands for a pixel that differs from the one
\* before it and is the chunk of the fixed priority INDEX, then (alpha kept)
\* DIFF, LUMA, RGB, else RGBA; the previous pixel and the index slot the rule
\* looks at are determined by the pixels of the image before it.
PriorityRule ==
    \A k \in 1..Len(EmittedChunks) :
        LET i == ChunkPixel(k)
        IN  EmittedChunks[k].tag # "Run" =>
                /\ i <= Len(image)
                /\ image[i] # PreviousOf(i)
                /\ EmittedChunks[k] = PriorityChunk(SlotBefore(i), PreviousOf(i), image[i])
\* (1,1,1,255) comes back one DIFF step after (0,0,0,255): INDEX, not DIFF
PriorityRuleWitness ==
    /\ Ended(emitted)
    /\ image = << Pixel(1, 1, 1, 255), START, Pixel(1, 1, 1, 255) >>
    /\ EmittedChunks = << new_diff(1, 1, 1), new_diff(-1, -1, -1), new_index(4) >>

\* a step in which the chunk encoder returned a chunk that is not a RUN; the
\* chunk, the coder state it was chosen in, and the pixel it stands for
NonRunEmitted ==
    /\ Len(emitted') = Len(emitted) + 1
    /\ IsSome(emitted'[Len(emitted')])
    /\ Unwrap(emitted'[Len(emitted')]).tag # "Run"
EmittedChunk == Unwrap(emitted'[Len(emitted')])
EmittedPixel == EncoderState'.previous
\* the decoder, in coder state `state`, expands chunk c to pixel p
Decodes(state, c, p) == ExpandChunk(state, c).ret = p
\* some DIFF chunk, some LUMA chunk decodes to p
SomeDiffDecodes(state, p) ==
    \E dr \in -2..1, dg \in -2..1, db \in -2..1 : Decodes(state, new_diff(dr, dg, db), p)
SomeLumaDecodes(state, p) ==
    \E dg \in -32..31 :
        /\ wrapping_add_signed(state.previous.g, dg) = p.g
        /\ \E dr_dg \in -8..7 :
              /\ wrapping_add_signed(state.previous.r, dr_dg + dg) = p.r
              /\ \E db_dg \in -8..7 : Decodes(state, new_luma(dg, dr_dg, db_dg), p)
\* the least serialised length of a chunk that decodes to p, the INDEX chunks
\* taken from the slots in `slots`
ShortestLen(state, p, slots) ==
    IF \/ \E idx \in slots : Decodes(state, new_index(idx), p)
       \/ SomeDiffDecodes(state, p)
    THEN 1
    ELSE IF SomeLumaDecodes(state, p) THEN 2
    ELSE IF Decodes(state, new_rgb(p.r, p.g, p.b), p) THEN 4
    ELSE 5

\* C22 as stated: a chunk that is not a RUN is as short as the shortest chunk
\* of any variant that decodes to its pixel in the coder state.
ShortestOfAll ==
    [][NonRunEmitted =>
          Len(write_to_chunk_buffer(EmittedChunk))
              = ShortestLen(EncoderState, EmittedPixel, 0..63)]_vars

\* C22 amended: a chunk that is not a RUN decodes to its pixel and is as short
\* as the shortest chunk that does, among INDEX with idx the hash of the
\* pixel, DIFF, LUMA, RGB and RGBA.
ShortestOfHashed ==
    [][NonRunEmitted =>
          /\ Decodes(EncoderState, EmittedChunk, EmittedPixel)
          /\ Len(write_to_chunk_buffer(EmittedChunk))
                = ShortestLen(EncoderState, EmittedPixel, { pixel_hash(EmittedPixel) })]_vars
\* (0,0,0,0) after its slot 0 was taken by (2,1,0,255): RGBA, five bytes,
\* while the untouched slots still hold (0,0,0,0)
ShortestOfHashedWitness ==
    /\ Ended(emitted)
    /\ image = << Pixel(2, 1, 0, 255), ZERO >>
    /\ EmittedChunks = << new_luma(1, 1, -1), new_rgba(0, 0, 0, 0) >>

ChunkExpanded == ChunkDecoderCalled /\ IsSome(ChunkDecoderRet)
ExpandedChunk == Unwrap(ChunkDecoderRet)
Yielded == Unwrap(decoded'[Len(decoded')])
DecoderState == DecoderSelf.state
\* an 8-bit channel x moved by the signed amount d
Moved(x, d) == (x + d + 256) % 256
\* the pixel a chunk that is not a RUN stands for after pixel q with the index `index`
ExpandedPixel(c, q, index) ==
    CASE c.tag = "Rgb" -> Pixel(c.r, c.g, c.b, q.a)
      [] c.tag = "Rgba" -> Pixel(c.r, c.g, c.b, c.a)
      [] c.tag = "Diff" -> Pixel(Moved(q.r, c.dr), Moved(q.g, c.dg), Moved(q.b, c.db), q.a)
      [] c.tag = "Luma" ->
            Pixel(Moved(q.r, c.dr_dg + c.dg), Moved(q.g, c.dg), Moved(q.b, c.db_dg + c.dg), q.a)
      [] c.tag = "Index" -> index[c.idx]

\* C24: for a chunk that is not a RUN the decoder yields the pixel the chunk
\* stands for (RGB with the previous alpha, RGBA as given, DIFF and LUMA the
\* previous channels moved by the deltas, INDEX the pixel of the slot) and
\* makes it the previous pixel; for RGB, RGBA, DIFF and LUMA it stores the
\* pixel in the slot of its hash, for INDEX it leaves all 64 slots as they are.
ExpandRule ==
    [][ChunkExpanded /\ ExpandedChunk.tag # "Run" =>
          /\ Yielded = ExpandedPixel(ExpandedChunk, DecoderState.previous, DecoderState.index)
          /\ DecoderState'.previous = Yielded
          /\ ExpandedChunk.tag # "Index" => DecoderState'.index[pixel_hash(Yielded)] = Yielded
          /\ ExpandedChunk.tag = "Index" => DecoderState'.index = DecoderState.index]_vars
\* RGBA, RGB with the alpha kept, DIFF across 0, LUMA, INDEX of the first
\* pixel, INDEX of an untouched slot
ExpandRuleWitness ==
    /\ Ended(decoded)
    /\ Len(DecodedChunks) = 6
    /\ DecodedChunks[2] = new_rgb(1, 2, 3)
    /\ DecodedChunks[3] = new_diff(-2, -2, -2)
    /\ UpToEnd(decoded) =
          << Pixel(10, 20, 30, 128), Pixel(1, 2, 3, 128), Pixel(255, 0, 1, 128),
             Pixel(246, 255, 248, 128), Pixel(10, 20, 30, 128), ZERO >>

\* a step in which QoiDecoder::next was called
DecoderCalled == decoder.called /\ IsSome(decoder.ret) /\ Len(decoded') = Len(decoded) + 1

\* C25: on RUN(n) the decoder yields the previous pixel and arms the counter
\* with n - 1; while the counter is not 0 a demand yields the previous pixel
\* again, counts down by one and draws nothing from the chunk decoder; the
\* previous pixel stays as it is throughout; with the counter at 0 a demand
\* draws the next chunk.
RunReplay ==
    [][/\ ChunkExpanded /\ ExpandedChunk.tag = "Run" =>
             /\ Yielded = DecoderState.previous
             /\ DecoderState'.previous = DecoderState.previous
             /\ DecoderState'.run = ExpandedChunk.run - 1
       /\ DecoderCalled /\ DecoderState.run > 0 =>
             /\ decoded'[Len(decoded')] = Some(DecoderState.previous)
             /\ DecoderState'.previous = DecoderState.previous
             /\ DecoderState'.run = DecoderState.run - 1
             /\ dchunks' = dchunks
             /\ DecoderRest' = DecoderRest
       /\ DecoderCalled /\ DecoderState.run = 0 => Len(dchunks') = Len(dchunks) + 1]_vars
\* RUN(62) and then INDEX(53): 62 times the starting pixel from one chunk,
\* the next chunk drawn by the 63rd demand
RunReplayWitness ==
    /\ Len(decoded) = 63
    /\ Len(dchunks) = 2
    /\ dchunks[1] = Some(new_run(62))
    /\ dchunks[2] = Some(new_index(53))
    /\ \A i \in 1..63 : decoded[i] = Some(START)
    /\ DecoderState.run = 0

\* the chunk encoder has returned a chunk and has not ended
EncoderReturned == Len(emitted) > 0 /\ IsSome(encoder.chunks.iter)

\* C26: after every chunk the chunk encoder returned, the index slot of the
\* hash of the previous pixel holds the previous pixel, also when the image
\* begins with the starting pixel (0,0,0,255).
EncoderIndexHoldsPrevious ==
    EncoderReturned =>
        EncoderState.index[pixel_hash(EncoderState.previous)] = EncoderState.previous
\* the image begins with (0,0,0,255): after RUN(1) slot 53 holds it
EncoderIndexHoldsPreviousWitness ==
    /\ EncoderReturned
    /\ image = << START, ZERO >>
    /\ emitted = << Some(new_run(1)) >>
    /\ EncoderState.previous = START
    /\ EncoderState.index[53] = START

\* the last demand on the decoder yielded a pixel; the chunk it came from
DecoderYielded ==
    /\ decoder.called /\ IsSome(decoder.ret)
    /\ Len(decoded) > 0 /\ IsSome(decoded[Len(decoded)])
LastChunk == Unwrap(dchunks[Len(dchunks)])
DecoderIndexAtPrevious == DecoderState.index[pixel_hash(DecoderState.previous)]

\* C27 as stated: after every pixel the decoder yielded, whatever the chunk
\* stream, the index slot of the hash of the previous pixel holds the previous
\* pixel.
DecoderIndexHoldsPrevious ==
    DecoderYielded => DecoderIndexAtPrevious = DecoderState.previous

\* C27 amended: after every pixel the decoder yielded the index slot of the
\* hash of the previous pixel holds the previous pixel, unless the pixel came
\* from an INDEX chunk whose idx is not the hash of the pixel; that pixel is
\* (0,0,0,0), read from a slot that was never written.
DecoderIndexHoldsHashed ==
    DecoderYielded =>
        IF LastChunk.tag = "Index" /\ LastChunk.idx # pixel_hash(DecoderState.previous)
        THEN DecoderState.previous = ZERO /\ DecoderState.index[LastChunk.idx] = ZERO
        ELSE DecoderIndexAtPrevious = DecoderState.previous
\* RGB (2,1,0) takes slot 0; INDEX(1) then yields (0,0,0,0), whose slot 0
\* holds the first pixel
DecoderIndexHoldsHashedWitness ==
    /\ DecoderYielded
    /\ decoded = << Some(Pixel(2, 1, 0, 255)), Some(ZERO) >>
    /\ dchunks = << Some(new_rgb(2, 1, 0)), Some(new_index(1)) >>
    /\ DecoderState.previous = ZERO
    /\ DecoderState.index[0] = Pixel(2, 1, 0, 255)

\* the items among the results of a sequence of demands
Items(results) ==
    [i \in 1..Len(SelectSeq(results, IsSome)) |-> Unwrap(SelectSeq(results, IsSome)[i])]

\* C28: whenever QoiChunkEncoder::next has returned, the encoder's run is 0;
\* whenever QoiDecoder::next has returned, the decoder's run is in 0..61 and is
\* the number of pixels the chunks drawn so far stand for and that were not
\* yielded yet, all of them pixels of the RUN chunk drawn last.
RunCounter ==
    /\ IsSome(encoder.chunks.iter) => EncoderState.run = 0
    /\ decoder.called /\ IsSome(decoder.ret) =>
          /\ DecoderState.run \in 0..61
          /\ Len(decoded) - NoneCount(decoded) + DecoderState.run = Weights(Items(dchunks))
          /\ DecoderState.run > 0 =>
                /\ Len(dchunks) > 0 /\ IsSome(dchunks[Len(dchunks)])
                /\ LastChunk.tag = "Run"
                /\ DecoderState.run < LastChunk.run
\* the encoder returned RUN(62) and the decoder has yielded its first pixel
RunCounterWitness ==
    /\ decoder.called /\ IsSome(decoder.ret)
    /\ emitted[1] = Some(new_run(62))
    /\ dchunks = << Some(new_run(62)) >>
    /\ Len(decoded) = 1
    /\ DecoderState.run = 61

\* a step in which the chunk encoder returned a RUN chunk: all it did to the
\* coder state was to absorb pixels into the run and to reset the counter
RunEmitted ==
    /\ Len(emitted') = Len(emitted) + 1
    /\ IsSome(emitted'[Len(emitted')])
    /\ Unwrap(emitted'[Len(emitted')]).tag = "Run"
\* no chunk other than a RUN was returned so far
OnlyRunsSoFar == \A k \in 1..Len(emitted) : Unwrap(emitted[k]).tag = "Run"

\* C29: absorbing pixels into a run leaves the previous pixel as it is and
\* leaves the value of every index slot as it is, except that in a run at the
\* very beginning of the image, before any chunk other than a RUN, the slot of
\* the hash of the previous pixel (0,0,0,255) is set to that pixel.
RunAbsorbs ==
    [][RunEmitted =>
          /\ EncoderState'.previous = EncoderState.previous
          /\ EncoderState'.index =
                IF OnlyRunsSoFar
                THEN [EncoderState.index EXCEPT ![pixel_hash(START)] = START]
                ELSE EncoderState.index]_vars
\* two starting pixels at the beginning: after RUN(2) slot 53 holds
\* (0,0,0,255) and every other slot is untouched
RunAbsorbsWitness ==
    /\ image = << START, START, ZERO >>
    /\ emitted = << Some(new_run(2)) >>
    /\ EncoderState.previous = START
    /\ EncoderState.index = [i \in 0..63 |-> IF i = 53 THEN START ELSE ZERO]

\* the chunk encoder inside the QoiEncoder, the number of pixels it has drawn
\* from the upstream, and a step in which its next was called
ChunkEncoder == Unwrap(encoder.chunks.iter)
Drawn == Len(image) - Len(ChunkEncoder.pixel)
ChunkEncoderCalled == Len(emitted') = Len(emitted) + 1
\* between demands the pixels drawn are those of the chunks returned and, if
\* the peek slot is occupied, one more, which is the pixel in the slot
OnePixelAhead ==
    IsSome(encoder.chunks.iter) =>
        /\ Drawn = Weights(EmittedChunks) + (IF IsSome(ChunkEncoder.peek) THEN 1 ELSE 0)
        /\ IsSome(ChunkEncoder.peek) => Unwrap(ChunkEncoder.peek) = image[Drawn]
\* the demand after a pixel was stashed encodes that pixel
StashedIsNext ==
    ChunkEncoderCalled /\ IsSome(ChunkEncoder.peek) =>
        /\ IsSome(emitted'[Len(emitted')])
        /\ Unwrap(emitted'[Len(emitted')]).tag # "Run"
        /\ EncoderState'.previous = Unwrap(ChunkEncoder.peek)
        /\ ChunkEncoder'.peek = None
        /\ ChunkEncoder'.pixel = ChunkEncoder.pixel

\* C30: whenever QoiChunkEncoder::next has returned, the pixels drawn from the
\* upstream are those the returned chunks stand for, plus one if the peek slot
\* is occupied; the next demand takes the stashed pixel first, draws nothing
\* more, and returns the one chunk that stands for it.
LookAhead == []OnePixelAhead /\ [][StashedIsNext]_vars
\* (0,0,0,255), (0,0,0,0): RUN(1) is returned with the second pixel stashed
LookAheadWitness ==
    /\ IsSome(encoder.chunks.iter)
    /\ image = << START, ZERO >>
    /\ emitted = << Some(new_run(1)) >>
    /\ ChunkEncoder.peek = Some(ZERO)
    /\ ChunkEncoder.pixel = << >>

\* the bytes the chunk decoder has drawn from the byte source and not
\* consumed into a chunk
Buffered == Len(Flat(DecoderSelf.chunks.bytes.peek))

\* C31: the chunk decoder holds at most 7 bytes it has drawn and not consumed;
\* it holds none before its first demand, and the number grows only in a
\* demand whose chunk-start byte is 0x00, the one that checks for the footer.
SevenBytesAhead ==
    /\ [](decoder.called /\ IsSome(decoder.ret) =>
            /\ Buffered <= 7
            /\ dchunks = << >> => Buffered = 0)
    /\ [][decoder.called /\ IsSome(decoder.ret) /\ Buffered' > Buffered =>
             ChunkDecoderCalled /\ DecoderRest[1] = 0]_vars
\* 00 and then seven bytes that are not the rest of the footer: INDEX(0),
\* with the seven bytes held back
SevenBytesAheadWitness ==
    /\ decoder.called /\ IsSome(decoder.ret)
    /\ Body = << 0, 0, 0, 0, 0, 0, 0, 0, 1 >>
    /\ dchunks = << Some(new_index(0)) >>
    /\ Buffered = 7
    /\ DecoderSelf.chunks.bytes.iter = << 1 >>

\* the items of the source that next has not returned yet
Remaining == SubSeq(upstream, Len(UpToEnd(taken)) + 1, Len(upstream))

\* C32: whatever the order of the peek and next calls, next returns the items
\* of the source in their order, each once, and end-of-output after the last;
\* the buffered items followed by the rest of the source are the items not
\* yet returned, also after a peek that returned None.
NothingLost ==
    /\ \A i \in 1..Len(taken) :
          taken[i] = IF i <= Len(upstream) THEN Some(upstream[i]) ELSE None
    /\ Flat(peekn.peek) \o peekn.iter = Remaining
\* 1..9: three items taken, then a peek that fails with six items left, all
\* of them drawn into the array
NothingLostWitness ==
    /\ upstream = [i \in 1..9 |-> i]
    /\ taken = << Some(1), Some(2), Some(3) >>
    /\ lastcall = Some([op |-> "peek", ret |-> None])
    /\ peekn.iter = << >>
    /\ Flat(peekn.peek) = << 4, 5, 6, 7, 8, 9 >>

\* a step that is a call of peek, and one that is a call of next
PeekStep == taken' = taken /\ IsSome(lastcall') /\ Unwrap(lastcall').op = "peek"
NextStep == Len(taken') = Len(taken) + 1

\* C33: peek returns Some exactly when at least 7 items are left, buffered or
\* in the source, and then the first 7 of them in order; next returns the
\* first item left, so the 7 calls of next after a peek return the items of
\* the peek; a peek right after a peek returns the same and draws nothing.
PeekRule ==
    [][/\ PeekStep =>
             /\ Unwrap(lastcall').ret =
                   IF Len(Remaining) >= 7 THEN Some(SubSeq(Remaining, 1, 7)) ELSE None
             /\ IsSome(lastcall) /\ Unwrap(lastcall).op = "peek" =>
                   lastcall' = lastcall /\ peekn' = peekn
       /\ NextStep =>
             taken'[Len(taken')] = IF Remaining = << >> THEN None ELSE Some(Remaining[1])]_vars
\* 1..9: a peek, two items taken, and a peek again, which returns 3..9
PeekRuleWitness ==
    /\ upstream = [i \in 1..9 |-> i]
    /\ taken = << Some(1), Some(2) >>
    /\ lastcall = Some([op |-> "peek", ret |-> Some(<< 3, 4, 5, 6, 7, 8, 9 >>)])
    /\ peekn.peek = [i \in 1..7 |-> Some(i + 2)]
    /\ peekn.iter = << >>

\* the bytes the ChunkBuf has yielded so far
BufBytes == UpToEnd(bufout)

\* C34: the first byte of a serialised chunk tells its variant (0xFE RGB,
\* 0xFF RGBA, 0x00..0x3F INDEX, 0x40..0x7F DIFF, 0x80..0xBF LUMA, 0xC0..0xFD
\* RUN), its length is 4, 5, 1, 1, 2, 1 bytes, and the chunk decoder given
\* these bytes alone returns the chunk.
ChunkCodec ==
    IsSome(written) /\ Ended(bufout) =>
        LET c == Unwrap(written)
            first == BufBytes[1]
        IN  /\ c.tag = "Rgb" <=> first = 254
            /\ c.tag = "Rgba" <=> first = 255
            /\ c.tag = "Index" <=> first \in 0..63
            /\ c.tag = "Diff" <=> first \in 64..127
            /\ c.tag = "Luma" <=> first \in 128..191
            /\ c.tag = "Run" <=> first \in 192..253
            /\ Len(BufBytes) = CASE c.tag = "Rgb" -> 4
                                 [] c.tag = "Rgba" -> 5
                                 [] c.tag = "Luma" -> 2
                                 [] OTHER -> 1
            /\ IsSome(alone) => Unwrap(alone).ret = Some(c)
\* LUMA(-32, 7, -8) is 80 F0 and comes back from these two bytes
ChunkCodecWitness ==
    /\ written = Some(new_luma(-32, 7, -8))
    /\ BufBytes = << 128, 240 >>
    /\ IsSome(alone)
    /\ Unwrap(alone).ret = Some(new_luma(-32, 7, -8))

\* C40: a ChunkBuf yields the bytes of the chunk written into it in order,
\* each once, and end-of-output on every demand after the last byte; a new
\* ChunkBuf yields nothing; 0 <= offset <= len <= 5 in every state.
BufYieldsOnce ==
    LET bytes == IF IsSome(written) THEN write_to_chunk_buffer(Unwrap(written)) ELSE << >>
    IN  /\ 0 <= chunkbuf.offset /\ chunkbuf.offset <= chunkbuf.len /\ chunkbuf.len <= 5
        /\ chunkbuf.len = Len(bytes)
        /\ \A i \in 1..Len(bufout) :
              bufout[i] = IF i <= Len(bytes) THEN Some(bytes[i]) ELSE None
\* the five bytes of RGBA (0,1,254,255), and end-of-output twice
BufYieldsOnceWitness ==
    /\ written = Some(new_rgba(0, 1, 254, 255))
    /\ bufout = << Some(255), Some(0), Some(1), Some(254), Some(255), None, None >>
    /\ chunkbuf.offset = 5
    /\ chunkbuf.len = 5

\* the bytes given to QoiDecoder::new and the number of them it has drawn
Given == UpToEnd(encoded)
DrawnByNew == Len(Given) - Len(decoder.iter)
\* the bytes up to the field at which parsing fails, 14 if it does not fail
HeaderBytesNeeded(bytes) ==
    IF Len(bytes) < 4 THEN Len(bytes)
    ELSE IF SubSeq(bytes, 1, 4) # << 113, 111, 105, 102 >> THEN 4
    ELSE IF Len(bytes) < 13 THEN Len(bytes)
    ELSE IF bytes[13] \notin { 3, 4 } THEN 13
    ELSE IF Len(bytes) < 14 THEN 13
    ELSE 14

\* C35: when QoiDecoder::new returns, the byte source is at the bytes it has
\* not drawn; it has drawn 14 bytes when it succeeds, 4 on a wrong magic, 13
\* on an invalid channels byte, 14 on an invalid colour-space byte, and all
\* bytes of an input that ends before the field that would fail.
HeaderDraw ==
    decoder.called /\ decoded = << >> =>
        /\ DrawnByNew = HeaderBytesNeeded(Given)
        /\ decoder.iter = SubSeq(Given, DrawnByNew + 1, Len(Given))
        /\ IsSome(decoder.ret) => DrawnByNew = 14 /\ DecoderRest = decoder.iter
\* channels byte 5: refused with the colour-space byte and two more bytes
\* left in the source
HeaderDrawWitness ==
    /\ decoder.called
    /\ ~IsSome(decoder.ret)
    /\ Given = [to_bytes(DefaultHeader) EXCEPT ![13] = 5] \o << 4, 0 >>
    /\ DrawnByNew = 13
    /\ decoder.iter = << 0, 4, 0 >>

\* C36: what the chunk encoder returns after a RUN chunk shorter than 62 is
\* end-of-output if the run took the last pixel, and otherwise the chunk,
\* not a RUN, of the pixel that ended the run.
ShortRunThenOther ==
    \A k \in 1..Len(EmittedChunks) :
        LET c == EmittedChunks[k]
            after == ChunkPixel(k) + Weight(c)
        IN  c.tag = "Run" /\ c.run < 62 /\ k < Len(emitted) =>
                IF after > Len(image) THEN emitted[k + 1] = None
                ELSE /\ IsSome(emitted[k + 1])
                     /\ Unwrap(emitted[k + 1]).tag # "Run"
                     /\ image[after] # PreviousOf(after)
                     /\ Unwrap(emitted[k + 1]) =
                           PriorityChunk(SlotBefore(after), PreviousOf(after), image[after])
\* 63 starting pixels and (0,0,0,0): RUN(62) is followed by RUN(1), and
\* RUN(1) by the INDEX chunk of the pixel that ended it
ShortRunThenOtherWitness ==
    /\ Ended(emitted)
    /\ Len(image) = 64
    /\ image[64] = ZERO
    /\ EmittedChunks = << new_run(62), new_run(1), new_index(0) >>

\* the k-th call of QoiChunkEncoder::next, k >= 1, on the chunk encoder e
RECURSIVE ChunkEncoderCalls(_, _)
ChunkEncoderCalls(e, k) ==
    IF k = 1 THEN ChunkEncoderNext(e)
    ELSE ChunkEncoderCalls(ChunkEncoderNext(e).self, k - 1)
\* the decoder has yielded every pixel of the chunks it has drawn, and has not
\* yet returned end-of-output
FullyExpanded ==
    /\ decoder.called /\ IsSome(decoder.ret)
    /\ Len(decoded) > 0 /\ NoneCount(decoded) = 0
    /\ DecoderState.run = 0

\* C37: when the decoder has fully expanded the k-th chunk of an encoder's
\* output, that chunk is what the k-th call of the chunk encoder returned, and
\* the decoder's previous pixel and its 64 index slots are those of the chunk
\* encoder after that call.
Lockstep ==
    FullyExpanded =>
        LET k == Len(dchunks)
            e == ChunkEncoderCalls(ChunkEncoderNew(image), k)
        IN  /\ e.ret = dchunks[k]
            /\ e.self.state.previous = DecoderState.previous
            /\ e.self.state.index = DecoderState.index
\* 63 starting pixels: after RUN(62), RUN(1) both hold (0,0,0,255) in slot 53
LockstepWitness ==
    /\ FullyExpanded
    /\ Len(image) = 64
    /\ image[64] = ZERO
    /\ dchunks = << Some(new_run(62)), Some(new_run(1)) >>
    /\ Len(decoded) = 63
    /\ DecoderState.previous = START
    /\ DecoderState.index[53] = START

\* where the first byte of the k-th emitted chunk is in the encoder's output
ChunkStart(k) == 14 + Len(ChunkBytes(SubSeq(EmittedChunks, 1, k - 1))) + 1

\* C38: in the whole output of an encoder no chunk's first byte is a 0x00
\* followed by 00 00 00 00 00 00 01, and the chunk decoder returns the emitted
\* chunks, all of them, before it ends.
NoEarlyFooter ==
    /\ Ended(encoded) =>
          \A k \in 1..Len(EmittedChunks) :
              Given[ChunkStart(k)] = 0 =>
                  SubSeq(Given, ChunkStart(k) + 1, ChunkStart(k) + 7) # SubSeq(QOI_FOOTER, 2, 8)
    /\ decoder.called /\ IsSome(decoder.ret) =>
          /\ IsPrefix(DecodedChunks, EmittedChunks)
          /\ Ended(dchunks) => DecodedChunks = EmittedChunks
\* the last chunk is INDEX(0): seven zero bytes follow its 0x00, and the
\* decoder returns it before it ends
NoEarlyFooterWitness ==
    /\ Ended(decoded)
    /\ image = << Pixel(1, 1, 1, 255), ZERO >>
    /\ ChunkStart(2) = 16
    /\ SubSeq(Given, 16, 24) = << 0 >> \o QOI_FOOTER
    /\ dchunks[2] = Some(new_index(0))
    /\ dchunks[3] = None

\* C39: over a fused pixel source, once the chunk encoder has returned
\* end-of-output every later demand returns end-of-output, the run counter is
\* 0 and the peek slot is empty from then on, and a caller that goes on
\* demanding reaches end-of-output.
EndsForGood ==
    /\ [](/\ \A i \in 1..Len(chunked) : \A j \in i..Len(chunked) :
                ~IsSome(chunked[i]) => ~IsSome(chunked[j])
          /\ Ended(chunked) =>
                chunker.state.run = 0 /\ chunker.peek = None /\ chunker.pixel = << >>)
    /\ <>Ended(chunked)
\* 63 starting pixels and one more pixel: three chunks, then the end twice
EndsForGoodWitness ==
    /\ Len(pixels) = 64
    /\ pixels[64] = ZERO
    /\ chunked = << Some(new_run(62)), Some(new_run(1)), Some(new_index(0)), None, None >>
    /\ chunker.state.run = 0
    /\ chunker.peek = None

====
